---- MODULE Spec2Model ----
(***************************************************************************)
(* Model / ModelVersion metadata layer (src/model.py, src/model_version.py,*)
(* src/models.py, src/model_versions.py).                                  *)
(*                                                                         *)
(* The store gateway (database_client), the alias utilities, the object    *)
(* store and pathvalidate are collaborators outside src/: they are         *)
(* modelled by their contract (spec.md sections 4.1 and 6).  A keyword     *)
(* filter whose value is None is not applied by the gateway: the code      *)
(* itself relies on this (ModelVersions._query passes model_id=None        *)
(* together with model_ids, Models._query passes directory_id=None).       *)
(***************************************************************************)
EXTENDS Naturals, Sequences, FiniteSets, TLC

\* ------------------------------------------------------------------ bounds
MaxModels == 2
MaxVersions == 2

\* ----------------------------------------------------------------- domains
None == "None"
Callers == {"c1", "c2"}
Projects == {"p1", "p2"}
ModelIdSet == {"m" \o ToString(i) : i \in 1..MaxModels}
VersionIdSet == {"v" \o ToString(i) : i \in 1..MaxVersions}
\* "a" is a legal file name, "b/" is not
Names == {"a", "b/"}
\* alias tokens: "@x" and "@y" may be registered, "@z" never is
AliasTokens == {"@x", "@y", "@z"}
DirectoryIds == {"d1", "d2"}
COMPONENT_TYPES_model == "model"

\* Python truthiness of an optional string
Truthy(x) == x /= None /\ x /= ""

\* Model() and ModelVersion() with every field at its default
NoModel == [model_id |-> None, project_id |-> None, name |-> None,
            latest_version_id |-> None, model_type |-> None,
            sub_model_type |-> None, description |-> None,
            directory_id |-> None, created_at |-> None,
            modified_at |-> None]
NoVersion == [version_id |-> None, model_id |-> None, version |-> None,
              hyperparameters |-> None, metrics |-> None,
              fold_metrics |-> None, created_at |-> None,
              modified_at |-> None]

\* keyword arguments of a gateway call; None is "not given or None"
NoKw == [model_id |-> None, project_id |-> None, version_id |-> None,
         directory_id |-> None, component_id |-> None,
         component_type |-> None, type |-> None, identifier |-> None,
         name |-> None, version |-> None, model_ids |-> {},
         latest_version_id |-> None, model_type |-> None,
         sub_model_type |-> None, description |-> None,
         hyperparameters |-> None, metrics |-> None, fold_metrics |-> None,
         created_at |-> None, modified_at |-> None]

\* one call issued to a collaborator, as the mocked agent client records it
Request(kind, table, fetchone, keys, kw) ==
    [kind |-> kind, table |-> table, fetchone |-> fetchone,
     keys |-> keys, kw |-> kw]

\* all orders in which the gateway may return the rows of S
Orders(S) ==
    {s \in [1..Cardinality(S) -> S] :
        \A i, j \in 1..Cardinality(S) : i /= j => s[i] /= s[j]}

\* ------------------------------------------------- collaborators (contract)
\* ikigai_component.alias.alias_utils.is_alias
is_alias(id) == id \in AliasTokens

\* pathvalidate.validate_filename: TRUE when no ValidationError is raised
validate_filename(name) == name \in {"a"}

\* DatabaseClient.query on the model table
query_model(rows, kw) ==
    {r \in rows :
        /\ kw.model_id = None \/ r.model_id = kw.model_id
        /\ kw.project_id = None \/ r.project_id = kw.project_id
        /\ kw.directory_id = None \/ r.directory_id = kw.directory_id}

\* DatabaseClient.query on the model_version table
query_model_version(rows, kw) ==
    {r \in rows :
        /\ kw.version_id = None \/ r.version_id = kw.version_id
        /\ kw.model_id = None \/ r.model_id = kw.model_id
        /\ kw.model_ids = {} \/ r.model_id \in kw.model_ids}

\* DatabaseClient.query on the directory table
query_directory(rows, kw) ==
    {r \in rows :
        /\ kw.directory_id = None \/ r.directory_id = kw.directory_id
        /\ kw.project_id = None \/ r.project_id = kw.project_id
        /\ kw.type = None \/ r.type = kw.type}

\* DatabaseClient.query on the project_alias table
query_project_alias(rows, kw) ==
    {r \in rows :
        /\ kw.identifier = None \/ r.alias = kw.identifier
        /\ kw.project_id = None \/ r.project_id = kw.project_id
        /\ kw.component_id = None \/ r.component_id = kw.component_id}

\* DatabaseClient.query on the annotation table
query_annotation(rows, kw) ==
    {r \in rows :
        /\ kw.component_type = None \/ r.component_type = kw.component_type
        /\ kw.component_id = None \/ r.component_id = kw.component_id}

\* ObjectStore.delete_directory: recursive, idempotent on a missing path
delete_directory(objs, project_id, model_id) ==
    {o \in objs : ~(o[1] = project_id /\ o[2] = model_id)}

\* ------------------------------------------------------------------- state
VARIABLES
    models,        \* rows of table model
    versions,      \* rows of table model_version
    annotations,   \* rows of table annotation
    aliases,       \* rows of table project_alias
    directories,   \* rows of table directory
    blobs,         \* objects of the model bucket: <<project, model, leaf>>
    pc,            \* per caller: position in the operation being run
    op,            \* per caller: the operation invoked
    ent,           \* per caller: the in-memory entity (self)
    args,          \* per caller: arguments of the operation invoked
    loc,           \* per caller: locals of the running delete cascade
    result,        \* per caller: outcome of the operation
    calls,         \* per caller: requests issued by the operation, in order
    pre,           \* per caller: store and entity when the operation began
    prev           \* per caller: the operation that returned before this one

store_vars == <<models, versions, annotations, aliases, directories, blobs>>
vars == <<models, versions, annotations, aliases, directories, blobs,
          pc, op, ent, args, loc, result, calls, pre, prev>>

\* the store and the in-memory entity e, as one value
Snapshot(e) == [models |-> models, versions |-> versions,
                annotations |-> annotations, aliases |-> aliases,
                directories |-> directories, blobs |-> blobs, ent |-> e]

NoLoc == [model |-> NoModel, vs_model_id |-> None, versions_left |-> <<>>,
          vself |-> NoVersion, model_version |-> NoVersion,
          mself |-> NoModel, models_left |-> <<>>,
          models_pulled |-> <<>>, versions_pulled |-> <<>>]
\* arguments of the class-level operations; database_client is TRUE when
\* a store handle is supplied
NoArgs == [model_id |-> None, version_id |-> None, project_id |-> None,
           directory_id |-> None, model_ids |-> {},
           database_client |-> TRUE, obj_proto |-> None,
           apply_formatting |-> TRUE]
NoResult == [kind |-> "none", tag |-> "", value |-> None]
Ok(v) == [kind |-> "ok", tag |-> "", value |-> v]
Err(kind, tag) == [kind |-> kind, tag |-> tag, value |-> None]

\* -------------------------------------------------------------------- Init
\* rows a model id may have in the model table; the first model may live in
\* directory d1 (a model directory of project p1)
ModelRowChoices(id) ==
    {[NoModel EXCEPT
        !.model_id = id, !.project_id = p, !.name = n,
        !.model_type = "mt",
        !.directory_id = IF id = "m1" /\ p = "p1" THEN "d1" ELSE None,
        !.created_at = "t1", !.modified_at = "t1"] :
        p \in Projects, n \in Names \cup {None}}

VersionRowChoices(id) ==
    {[NoVersion EXCEPT
        !.version_id = id, !.model_id = m, !.version = n,
        !.metrics = "mx", !.created_at = "t1", !.modified_at = "t1"] :
        m \in ModelIdSet, n \in {"a"}}

\* tables hold at most one row per id (upsert is keyed by identity)
\* choices maps each id to the rows it may have
TableChoices(choices) ==
    UNION {{{f[id] : id \in S} :
               f \in {g \in [S -> UNION {choices[i] : i \in S}] :
                          \A i \in S : g[i] \in choices[i]}} :
           S \in SUBSET DOMAIN choices}

InitDirectories ==
    {[directory_id |-> "d1", project_id |-> "p1", type |-> "model"],
     [directory_id |-> "d2", project_id |-> "p1", type |-> "dataset"]}

ProjectOfModel(ms, m) ==
    IF \E r \in ms : r.model_id = m
    THEN (CHOOSE r \in ms : r.model_id = m).project_id
    ELSE "p1"

\* the dependent records created for the models and versions of the store
InitAnnotations(ms) ==
    {[component_type |-> "model", component_id |-> r.model_id] : r \in ms}
    \cup {[component_type |-> "dataset", component_id |-> "ds1"]}

InitAliases(ms, vs) ==
    {[alias |-> "@x", project_id |-> r.project_id,
      component_id |-> r.model_id] : r \in {q \in ms : q.model_id = "m1"}}
    \cup
    {[alias |-> "@y", project_id |-> ProjectOfModel(ms, r.model_id),
      component_id |-> r.version_id] :
        r \in {q \in vs : q.version_id = "v1"}}

InitBlobs(ms, vs) ==
    {<<r.project_id, r.model_id, "model">> : r \in ms}
    \cup
    {<<ProjectOfModel(ms, r.model_id), r.model_id, r.version_id>> :
        r \in {q \in vs : \E m \in ms : m.model_id = q.model_id}}

Idle ==
    /\ pc = [c \in Callers |-> "idle"]
    /\ op = [c \in Callers |-> "none"]
    /\ ent = [c \in Callers |-> NoModel]
    /\ args = [c \in Callers |-> NoArgs]
    /\ loc = [c \in Callers |-> NoLoc]
    /\ result = [c \in Callers |-> NoResult]
    /\ calls = [c \in Callers |-> <<>>]
    /\ pre = [c \in Callers |-> None]
    /\ prev = [c \in Callers |-> [op |-> "none", kind |-> "none"]]

Init ==
    /\ models \in TableChoices([id \in ModelIdSet |-> ModelRowChoices(id)])
    /\ versions \in
           TableChoices([id \in VersionIdSet |-> VersionRowChoices(id)])
    /\ directories = InitDirectories
    /\ \E full \in BOOLEAN :
        /\ annotations = IF full THEN InitAnnotations(models) ELSE {}
        /\ aliases = IF full THEN InitAliases(models, versions) ELSE {}
        /\ blobs = IF full THEN InitBlobs(models, versions) ELSE {}
    /\ Idle

\* ---------------------------------------------------------------- helpers
\* the operation o of caller c, invoked on entity e0 with arguments a, ends
\* with outcome r, having issued requests rq and left the entity as e
Finish(c, o, e0, e, a, r, rq) ==
    /\ pc' = [pc EXCEPT ![c] = "done"]
    /\ op' = [op EXCEPT ![c] = o]
    /\ ent' = [ent EXCEPT ![c] = e]
    /\ args' = [args EXCEPT ![c] = a]
    /\ result' = [result EXCEPT ![c] = r]
    /\ calls' = [calls EXCEPT ![c] = rq]
    /\ pre' = [pre EXCEPT ![c] = Snapshot(e0)]
    /\ UNCHANGED prev

\* the entities on which caller c may invoke a method now: any entity of S
\* when c holds none, the entity c holds once an operation on it returned
Receivers(c, S) ==
    IF pc[c] = "idle" THEN S
    ELSE IF pc[c] = "held" THEN {ent[c]} \cap S
    ELSE {}

\* an operation returns to caller c, which keeps the entity it was invoked on
Return(c) ==
    /\ pc[c] = "done"
    /\ pc' = [pc EXCEPT ![c] = "held"]
    /\ prev' = [prev EXCEPT ![c] = [op |-> op[c], kind |-> result[c].kind]]
    /\ UNCHANGED <<store_vars, op, ent, args, loc, result, calls, pre>>

\* ikigai_component.alias.alias_utils.to_project_component_id
alias_request(identifier, project_id) ==
    Request("query", "project_alias", "True", {"identifier", "project_id"},
            [NoKw EXCEPT !.identifier = identifier,
                         !.project_id = project_id])

to_project_component_id(rows, identifier, project_id) ==
    LET hit == query_project_alias(rows,
                   [NoKw EXCEPT !.identifier = identifier,
                                !.project_id = project_id])
    IN  IF hit = {}
        THEN Err("NotFound", "no_project_alias")
        ELSE Ok((CHOOSE r \in hit : TRUE).component_id)

\* variant: the project is required before the id is looked at
resolve_alias_project_first(rows, id, project_id) ==
    IF ~Truthy(project_id)
    THEN [r |-> Err("InvalidInput", "project_required"), rq |-> <<>>]
    ELSE IF ~is_alias(id)
    THEN [r |-> Ok(id), rq |-> <<>>]
    ELSE [r |-> to_project_component_id(rows, id, project_id),
          rq |-> <<alias_request(id, project_id)>>]

\* Model.resolve_alias / ModelVersion.resolve_alias: outcome and requests
resolve_alias(rows, id, project_id) ==
    IF ~is_alias(id)
    THEN [r |-> Ok(id), rq |-> <<>>]
    ELSE IF ~Truthy(project_id)
    THEN [r |-> Err("InvalidInput", "project_required"), rq |-> <<>>]
    ELSE [r |-> to_project_component_id(rows, id, project_id),
          rq |-> <<alias_request(id, project_id)>>]

IdInputs(ids) == {None, ""} \cup ids \cup AliasTokens
ProjectInputs == {None, ""} \cup Projects

\* --------------------------------------------------------- alias resolution
Model_resolve_alias(c) ==
    /\ pc[c] = "idle"
    /\ \E id \in IdInputs(ModelIdSet), p \in ProjectInputs :
        LET out == resolve_alias(aliases, id, p)
        IN  Finish(c, "Model.resolve_alias", NoModel, NoModel,
                   [NoArgs EXCEPT !.model_id = id, !.project_id = p],
                   out.r, out.rq)
    /\ UNCHANGED <<store_vars, loc>>

ModelVersion_resolve_alias(c) ==
    /\ pc[c] = "idle"
    /\ \E id \in IdInputs(VersionIdSet), p \in ProjectInputs :
        LET out == resolve_alias(aliases, id, p)
        IN  Finish(c, "ModelVersion.resolve_alias", NoVersion, NoVersion,
                   [NoArgs EXCEPT !.version_id = id, !.project_id = p],
                   out.r, out.rq)
    /\ UNCHANGED <<store_vars, loc>>

\* ------------------------------------------------------------ row mapping
\* Model.from_namedtuple
Model_from_namedtuple(row) ==
    [model_id |-> row.model_id, project_id |-> row.project_id,
     name |-> row.name, latest_version_id |-> row.latest_version_id,
     model_type |-> row.model_type, sub_model_type |-> row.sub_model_type,
     directory_id |-> row.directory_id, description |-> row.description,
     created_at |-> row.created_at, modified_at |-> row.modified_at]

\* ModelVersion.from_namedtuple
ModelVersion_from_namedtuple(row) ==
    [model_id |-> row.model_id, version |-> row.version,
     version_id |-> row.version_id,
     hyperparameters |-> row.hyperparameters, metrics |-> row.metrics,
     fold_metrics |-> row.fold_metrics,
     created_at |-> row.created_at, modified_at |-> row.modified_at]

\* entities a caller may hold in memory with every field set; the managed
\* timestamps may hold any value, set externally or copied from a row
DetailedModelInputs ==
    {[model_id |-> i, project_id |-> "p1", name |-> "a",
      latest_version_id |-> "v1", model_type |-> "mt",
      sub_model_type |-> "smt", description |-> "text",
      directory_id |-> "d1", created_at |-> t, modified_at |-> t] :
        i \in {None} \cup ModelIdSet, t \in {None, "t1", "t9"}}

DetailedVersionInputs ==
    {[version_id |-> i, model_id |-> "m1", version |-> "a",
      hyperparameters |-> "hp", metrics |-> "mx", fold_metrics |-> "fm",
      created_at |-> t, modified_at |-> t] :
        i \in {None} \cup VersionIdSet, t \in {None, "t1", "t9"}}

\* entities a caller may hold in memory
ModelInputs ==
    {[NoModel EXCEPT !.model_id = i, !.project_id = p, !.name = n,
                     !.directory_id = d] :
        i \in {None} \cup ModelIdSet \cup AliasTokens,
        p \in {None} \cup Projects,
        n \in {None} \cup Names,
        d \in {None} \cup DirectoryIds}
    \cup DetailedModelInputs

VersionInputs ==
    {[NoVersion EXCEPT !.version_id = i, !.model_id = m, !.version = n] :
        i \in {None} \cup VersionIdSet \cup AliasTokens,
        m \in {None} \cup ModelIdSet,
        n \in {None} \cup Names}
    \cup DetailedVersionInputs

\* --------------------------------------------------------------------- pull
\* Model._query with fetchone=True, keyed by model_id
model_query_request(model_id) ==
    Request("query", "model", "True", {"model_id"},
            [NoKw EXCEPT !.model_id = model_id])

\* variant: a missing row yields an empty Model instead of the not-found
\* error
Model_pull_out_missing_ok(ms, as, model_id, project_id) ==
    IF ~Truthy(model_id)
    THEN [r |-> Err("NotFound", "id_required"), rq |-> <<>>]
    ELSE
      LET res == resolve_alias(as, model_id, project_id) IN
      IF res.r.kind /= "ok" THEN res
      ELSE
        LET hit == query_model(ms, [NoKw EXCEPT !.model_id = res.r.value])
            rq == Append(res.rq, model_query_request(res.r.value))
        IN  IF hit = {}
            THEN [r |-> Ok([NoModel EXCEPT !.model_id = res.r.value]),
                  rq |-> rq]
            ELSE [r |-> Ok(Model_from_namedtuple(CHOOSE x \in hit : TRUE)),
                  rq |-> rq]

\* variant: the check that model_id is provided is missing
Model_pull_out_unguarded(ms, as, model_id, project_id) ==
    LET res == resolve_alias(as, model_id, project_id) IN
    IF res.r.kind /= "ok" THEN res
    ELSE
      LET hit == query_model(ms, [NoKw EXCEPT !.model_id = res.r.value])
          rq == Append(res.rq, model_query_request(res.r.value))
      IN  IF hit = {}
          THEN [r |-> Err("NotFound", "no_model"), rq |-> rq]
          ELSE [r |-> Ok(Model_from_namedtuple(CHOOSE x \in hit : TRUE)),
                rq |-> rq]

\* Model.pull: outcome and requests
Model_pull_out(ms, as, model_id, project_id) ==
    IF ~Truthy(model_id)
    THEN [r |-> Err("NotFound", "id_required"), rq |-> <<>>]
    ELSE
      LET res == resolve_alias(as, model_id, project_id) IN
      IF res.r.kind /= "ok" THEN res
      ELSE
        LET hit == query_model(ms, [NoKw EXCEPT !.model_id = res.r.value])
            rq == Append(res.rq, model_query_request(res.r.value))
        IN  IF hit = {}
            THEN [r |-> Err("NotFound", "no_model"), rq |-> rq]
            ELSE [r |-> Ok(Model_from_namedtuple(CHOOSE x \in hit : TRUE)),
                  rq |-> rq]

\* ModelVersion._query with fetchone=True, keyed by version_id and model_id
version_query_request(version_id, model_id) ==
    Request("query", "model_version", "True", {"version_id", "model_id"},
            [NoKw EXCEPT !.version_id = version_id, !.model_id = model_id])

\* variant: the fetch is keyed by version_id only
ModelVersion_pull_out_no_parent(vs, as, version_id, model_id, project_id) ==
    IF ~Truthy(version_id)
    THEN [r |-> Err("NotFound", "id_required"), rq |-> <<>>]
    ELSE
      LET res == resolve_alias(as, version_id, project_id) IN
      IF res.r.kind /= "ok" THEN res
      ELSE
        LET hit == query_model_version(vs,
                       [NoKw EXCEPT !.version_id = res.r.value])
            rq == Append(res.rq,
                         version_query_request(res.r.value, model_id))
        IN  IF hit = {}
            THEN [r |-> Err("NotFound", "no_model"), rq |-> rq]
            ELSE [r |-> Ok(ModelVersion_from_namedtuple(
                               CHOOSE x \in hit : TRUE)),
                  rq |-> rq]

\* ModelVersion.pull: outcome and requests
ModelVersion_pull_out(vs, as, version_id, model_id, project_id) ==
    IF ~Truthy(version_id)
    THEN [r |-> Err("NotFound", "id_required"), rq |-> <<>>]
    ELSE
      LET res == resolve_alias(as, version_id, project_id) IN
      IF res.r.kind /= "ok" THEN res
      ELSE
        LET hit == query_model_version(vs,
                       [NoKw EXCEPT !.version_id = res.r.value,
                                    !.model_id = model_id])
            rq == Append(res.rq,
                         version_query_request(res.r.value, model_id))
        IN  IF hit = {}
            THEN [r |-> Err("NotFound", "no_model"), rq |-> rq]
            ELSE [r |-> Ok(ModelVersion_from_namedtuple(
                               CHOOSE x \in hit : TRUE)),
                  rq |-> rq]

Model_pull(c) ==
    /\ pc[c] = "idle"
    /\ \E id \in IdInputs(ModelIdSet), p \in ProjectInputs :
        LET out == Model_pull_out(models, aliases, id, p)
        IN  Finish(c, "Model.pull", NoModel, NoModel,
                   [NoArgs EXCEPT !.model_id = id, !.project_id = p],
                   out.r, out.rq)
    /\ UNCHANGED <<store_vars, loc>>

ModelVersion_pull(c) ==
    /\ pc[c] = "idle"
    /\ \E id \in IdInputs(VersionIdSet), m \in {None} \cup ModelIdSet,
          p \in ProjectInputs :
        LET out == ModelVersion_pull_out(versions, aliases, id, m, p)
        IN  Finish(c, "ModelVersion.pull", NoVersion, NoVersion,
                   [NoArgs EXCEPT !.version_id = id, !.model_id = m,
                                  !.project_id = p],
                   out.r, out.rq)
    /\ UNCHANGED <<store_vars, loc>>

\* ----------------------------------------------------------------- validate
OkOut == [r |-> Ok(None), rq |-> <<>>]

\* run check b only when check a passed; requests accumulate in order
Then(a, b) ==
    IF a.r.kind /= "ok" THEN a ELSE [r |-> b.r, rq |-> a.rq \o b.rq]

\* variant: the parent consistency check is missing
Model_validate_identity_no_parent_check(ms, e) ==
    IF ~Truthy(e.model_id) THEN OkOut
    ELSE
      LET hit == query_model(ms, [NoKw EXCEPT !.model_id = e.model_id])
          rq == <<model_query_request(e.model_id)>>
      IN  IF hit = {}
          THEN [r |-> Err("NotFound", "no_model"), rq |-> rq]
          ELSE IF is_alias(e.model_id)
          THEN [r |-> Err("InvalidInput", "alias"), rq |-> rq]
          ELSE [r |-> Ok(None), rq |-> rq]

\* Model.validate, existing component validation (model_id is present)
Model_validate_identity(ms, e) ==
    IF ~Truthy(e.model_id) THEN OkOut
    ELSE
      LET hit == query_model(ms, [NoKw EXCEPT !.model_id = e.model_id])
          rq == <<model_query_request(e.model_id)>>
      IN  IF hit = {}
          THEN [r |-> Err("NotFound", "no_model"), rq |-> rq]
          ELSE IF /\ Truthy(e.project_id)
                  /\ e.project_id /= (CHOOSE x \in hit : TRUE).project_id
          THEN [r |-> Err("InvalidInput", "parent"), rq |-> rq]
          ELSE IF is_alias(e.model_id)
          THEN [r |-> Err("InvalidInput", "alias"), rq |-> rq]
          ELSE [r |-> Ok(None), rq |-> rq]

models_query_request(project_id, directory_id, keys) ==
    Request("query", "model", "False", keys,
            [NoKw EXCEPT !.project_id = project_id,
                         !.directory_id = directory_id])

validate_filename_request(name) ==
    Request("validate_filename", "pathvalidate", "-", {"name"},
            [NoKw EXCEPT !.name = name])

\* variant: uniqueness is only enforced for entities without an identity
existing_model_names_new_only(rows, e) ==
    IF Truthy(e.model_id) THEN {}
    ELSE {x.name : x \in {y \in rows : /\ y.model_id /= e.model_id
                                       /\ Truthy(y.name)}}

\* variant: a name the record already holds is exempt from the collision check
existing_model_names_unchanged_exempt(rows, e) ==
    {x.name : x \in {y \in rows : /\ y.model_id /= e.model_id
                                  /\ Truthy(y.name)}}
        \ {x.name : x \in {y \in rows : y.model_id = e.model_id}}

\* variant: no name counts as held
existing_model_names_none(rows, e) == {}

\* Model.validate: names held by the other models returned by the query
existing_model_names(rows, e) ==
    {x.name : x \in {y \in rows : /\ y.model_id /= e.model_id
                                  /\ Truthy(y.name)}}

\* variant: the name is validated on every call
name_changed_always(rows, e) == TRUE

\* variant: the name is validated only for a record found by the query
name_changed_existing_only(rows, e) ==
    \E x \in rows : x.model_id = e.model_id /\ e.name /= x.name

\* Model.validate: the condition under which validate_filename is run
name_changed(rows, e) ==
    \/ ~\E x \in rows : x.model_id = e.model_id
    \/ e.name /= (CHOOSE x \in rows : x.model_id = e.model_id).name

\* Model.validate, uniqueness and validity of the name
Model_validate_name(ms, e) ==
    IF ~Truthy(e.name) THEN OkOut
    ELSE
      LET rows == query_model(ms, [NoKw EXCEPT !.project_id = e.project_id])
          q == models_query_request(e.project_id, None, {"project_id"})
      IN  IF e.name \in existing_model_names(rows, e)
          THEN [r |-> Err("InvalidInput", "exists"), rq |-> <<q>>]
          ELSE IF ~name_changed(rows, e)
          THEN [r |-> Ok(None), rq |-> <<q>>]
          ELSE IF validate_filename(e.name)
          THEN [r |-> Ok(None),
                rq |-> <<q, validate_filename_request(e.name)>>]
          ELSE [r |-> Err("InvalidInput", "syntax"),
                rq |-> <<q, validate_filename_request(e.name)>>]

\* Model.validate, directory validation; the gateway raises
\* NoDirectoryException when no directory row matches
Model_validate_directory(ds, e) ==
    IF ~Truthy(e.directory_id) THEN OkOut
    ELSE
      LET kw == [NoKw EXCEPT !.directory_id = e.directory_id,
                             !.project_id = e.project_id,
                             !.type = COMPONENT_TYPES_model]
          q == Request("query", "directory", "False",
                       {"directory_id", "project_id", "type"}, kw)
      IN  IF query_directory(ds, kw) = {}
          THEN [r |-> Err("InvalidInput", "directory"), rq |-> <<q>>]
          ELSE [r |-> Ok(None), rq |-> <<q>>]

\* variant: the existing component validation is left out
Model_validate_out_no_identity(ms, ds, e) ==
    Then(Model_validate_name(ms, e), Model_validate_directory(ds, e))

\* variant: the directory is looked up before the sibling names are listed
Model_validate_out_directory_first(ms, ds, e) ==
    Then(Then(Model_validate_identity(ms, e), Model_validate_directory(ds, e)),
         Model_validate_name(ms, e))

\* Model.validate: outcome and requests
Model_validate_out(ms, ds, e) ==
    Then(Then(Model_validate_identity(ms, e), Model_validate_name(ms, e)),
         Model_validate_directory(ds, e))

\* variant: the fetched project_id is written onto the entity
Model_validate_self_backfill(ms, e) ==
    LET hit == query_model(ms, [NoKw EXCEPT !.model_id = e.model_id])
    IN  IF Truthy(e.model_id) /\ hit /= {}
        THEN [e EXCEPT !.project_id = (CHOOSE x \in hit : TRUE).project_id]
        ELSE e

\* Model.validate: self when validate ends; the fetched project_id is bound
\* to a local and no attribute of self is assigned
Model_validate_self(ms, e) == e

\* Model.validate invoked by caller c on an entity of S
Model_validate_on(c, S) ==
    /\ \E e \in Receivers(c, S) :
        LET out == Model_validate_out(models, directories, e)
        IN  Finish(c, "Model.validate", e, Model_validate_self(models, e),
                   NoArgs, out.r, out.rq)
    /\ UNCHANGED <<store_vars, loc>>

Model_validate(c) == Model_validate_on(c, ModelInputs)

\* ModelVersion._query with fetchone=True, keyed by version_id only
version_id_query_request(version_id) ==
    Request("query", "model_version", "True", {"version_id"},
            [NoKw EXCEPT !.version_id = version_id])

\* ModelVersion.validate, existing component validation (version_id present)
ModelVersion_validate_identity(vs, e) ==
    IF ~Truthy(e.version_id) THEN OkOut
    ELSE
      LET hit == query_model_version(vs,
                     [NoKw EXCEPT !.version_id = e.version_id])
          rq == <<version_id_query_request(e.version_id)>>
      IN  IF hit = {}
          THEN [r |-> Err("NotFound", "no_model"), rq |-> rq]
          ELSE IF /\ Truthy(e.model_id)
                  /\ e.model_id /= (CHOOSE x \in hit : TRUE).model_id
          THEN [r |-> Err("InvalidInput", "parent"), rq |-> rq]
          ELSE IF is_alias(e.version_id)
          THEN [r |-> Err("InvalidInput", "alias"), rq |-> rq]
          ELSE [r |-> Ok(None), rq |-> rq]

\* ModelVersion._query with fetchone=False, keyed by the in-memory model_id
model_versions_query_request(model_id) ==
    Request("query", "model_version", "False", {"model_id"},
            [NoKw EXCEPT !.model_id = model_id])

\* ModelVersion.validate: labels held by the other versions returned by the
\* query
existing_versions(rows, e) ==
    {x.version : x \in {y \in rows : /\ y.version_id /= e.version_id
                                     /\ Truthy(y.version)}}

\* ModelVersion.validate: the condition under which validate_filename is run
version_changed(rows, e) ==
    \/ ~\E x \in rows : x.version_id = e.version_id
    \/ e.version /= (CHOOSE x \in rows : x.version_id = e.version_id).version

\* ModelVersion.validate, uniqueness and validity of the version label
ModelVersion_validate_name(vs, e) ==
    IF ~Truthy(e.version) THEN OkOut
    ELSE
      LET rows == query_model_version(vs,
                      [NoKw EXCEPT !.model_id = e.model_id])
          q == model_versions_query_request(e.model_id)
      IN  IF e.version \in existing_versions(rows, e)
          THEN [r |-> Err("InvalidInput", "exists"), rq |-> <<q>>]
          ELSE IF ~version_changed(rows, e)
          THEN [r |-> Ok(None), rq |-> <<q>>]
          ELSE IF validate_filename(e.version)
          THEN [r |-> Ok(None),
                rq |-> <<q, validate_filename_request(e.version)>>]
          ELSE [r |-> Err("InvalidInput", "syntax"),
                rq |-> <<q, validate_filename_request(e.version)>>]

\* variant: the label is checked before the identity
ModelVersion_validate_out_name_first(vs, e) ==
    Then(ModelVersion_validate_name(vs, e),
         ModelVersion_validate_identity(vs, e))

\* ModelVersion.validate: outcome and requests
ModelVersion_validate_out(vs, e) ==
    Then(ModelVersion_validate_identity(vs, e),
         ModelVersion_validate_name(vs, e))

\* ModelVersion.validate: self when validate ends; the fetched model_id is
\* bound to a local and no attribute of self is assigned
ModelVersion_validate_self(vs, e) == e

ModelVersion_validate(c) ==
    /\ \E e \in Receivers(c, VersionInputs) :
        LET out == ModelVersion_validate_out(versions, e)
        IN  Finish(c, "ModelVersion.validate", e,
                   ModelVersion_validate_self(versions, e),
                   NoArgs, out.r, out.rq)
    /\ UNCHANGED <<store_vars, loc>>

\* --------------------------------------------------------------------- push
\* the time the store stamps on the rows it writes
StoreClock == "t2"

\* DatabaseClient.upsert on an existing row: a field given as None leaves the
\* stored value as it is, modified_at is set by the store
upsert_row(old, kw, fields) ==
    [f \in DOMAIN old |->
        IF f \in fields THEN (IF kw[f] = None THEN old[f] ELSE kw[f])
        ELSE IF f = "modified_at" THEN StoreClock
        ELSE old[f]]

\* DatabaseClient.upsert on a new row: the store assigns the id and both
\* timestamps
insert_row(base, kw, fields, id_field, id) ==
    [f \in DOMAIN base |->
        IF f = id_field THEN id
        ELSE IF f \in fields THEN kw[f]
        ELSE StoreClock]

\* ids the store may return from an upsert: the given identity, or a newly
\* assigned one
upsert_ids(rows_ids, all_ids, id) ==
    IF Truthy(id) THEN {id} ELSE all_ids \ rows_ids

\* variant: every field of the dataclass is passed to the upsert
model_upsert_request_all_fields(e) ==
    Request("upsert", "model", "-", DOMAIN e,
            [f \in DOMAIN NoKw |-> IF f \in DOMAIN e THEN e[f] ELSE NoKw[f]])

\* Model._upsert as called by Model.push
model_upsert_request(e) ==
    Request("upsert", "model", "-",
            {"model_id", "name", "project_id", "latest_version_id",
             "model_type", "sub_model_type", "description", "directory_id"},
            [NoKw EXCEPT !.model_id = e.model_id, !.name = e.name,
                         !.project_id = e.project_id,
                         !.latest_version_id = e.latest_version_id,
                         !.model_type = e.model_type,
                         !.sub_model_type = e.sub_model_type,
                         !.description = e.description,
                         !.directory_id = e.directory_id])

\* ModelVersion._upsert as called by ModelVersion.push
version_upsert_request(e) ==
    Request("upsert", "model_version", "-",
            {"version_id", "version", "model_id", "hyperparameters",
             "metrics", "fold_metrics"},
            [NoKw EXCEPT !.version_id = e.version_id,
                         !.version = e.version, !.model_id = e.model_id,
                         !.hyperparameters = e.hyperparameters,
                         !.metrics = e.metrics,
                         !.fold_metrics = e.fold_metrics])

\* variant: the store refuses a second row with a name already held in the
\* project and returns the id of the row that holds it
upsert_model_unique_name(ms, id, q) ==
    LET hit == {r \in ms : r.model_id = id}
        clash == {r \in ms : /\ r.model_id /= id
                             /\ Truthy(q.kw.name)
                             /\ r.name = q.kw.name
                             /\ r.project_id = q.kw.project_id}
    IN  IF clash /= {} THEN ms
        ELSE IF hit = {}
        THEN ms \cup {insert_row(NoModel, q.kw, q.keys, "model_id", id)}
        ELSE (ms \ hit)
                 \cup {upsert_row(CHOOSE r \in hit : TRUE, q.kw, q.keys)}

\* DatabaseClient.upsert on the model table, for the request q
upsert_model(ms, id, q) ==
    LET hit == {r \in ms : r.model_id = id}
    IN  IF hit = {}
        THEN ms \cup {insert_row(NoModel, q.kw, q.keys, "model_id", id)}
        ELSE (ms \ hit)
                 \cup {upsert_row(CHOOSE r \in hit : TRUE, q.kw, q.keys)}

\* variant: the store refuses a new version whose model has no row
upsert_model_version_parent_required(vs, id, q) ==
    LET hit == {r \in vs : r.version_id = id}
    IN  IF hit = {}
        THEN IF \E m \in models : m.model_id = q.kw.model_id
             THEN vs \cup {insert_row(NoVersion, q.kw, q.keys,
                                      "version_id", id)}
             ELSE vs
        ELSE (vs \ hit)
                 \cup {upsert_row(CHOOSE r \in hit : TRUE, q.kw, q.keys)}

\* DatabaseClient.upsert on the model_version table, for the request q
upsert_model_version(vs, id, q) ==
    LET hit == {r \in vs : r.version_id = id}
    IN  IF hit = {}
        THEN vs \cup {insert_row(NoVersion, q.kw, q.keys, "version_id", id)}
        ELSE (vs \ hit)
                 \cup {upsert_row(CHOOSE r \in hit : TRUE, q.kw, q.keys)}

\* variant: the alias check is missing
push_guard_no_alias_check(id, database_client) ==
    IF ~database_client THEN Err("Unavailable", "database") ELSE Ok(None)

\* variant: the store handle is not checked
push_guard_no_database_check(id, database_client) ==
    IF is_alias(id) THEN Err("InvalidInput", "alias") ELSE Ok(None)

\* the guards of Model.push / ModelVersion.push before the upsert
push_guard(id, database_client) ==
    IF is_alias(id) THEN Err("InvalidInput", "alias")
    ELSE IF ~database_client THEN Err("Unavailable", "database")
    ELSE Ok(None)

\* Model.push invoked by caller c on an entity of S
Model_push_on(c, S) ==
    /\ \E e \in Receivers(c, S), db \in BOOLEAN :
        LET g == push_guard(e.model_id, db)
            a == [NoArgs EXCEPT !.database_client = db]
        IN  IF g.kind /= "ok"
            THEN /\ Finish(c, "Model.push", e, e, a, g, <<>>)
                 /\ UNCHANGED models
            ELSE \E id \in upsert_ids({r.model_id : r \in models},
                                      ModelIdSet, e.model_id) :
                 /\ models' = upsert_model(models, id, model_upsert_request(e))
                 /\ Finish(c, "Model.push", e, [e EXCEPT !.model_id = id],
                           a, Ok(id), <<model_upsert_request(e)>>)
    /\ UNCHANGED <<versions, annotations, aliases, directories, blobs, loc>>

Model_push(c) == Model_push_on(c, ModelInputs)

\* ModelVersion.push invoked by caller c on an entity of S
ModelVersion_push_on(c, S) ==
    /\ \E e \in Receivers(c, S), db \in BOOLEAN :
        LET g == push_guard(e.version_id, db)
            a == [NoArgs EXCEPT !.database_client = db]
        IN  IF g.kind /= "ok"
            THEN /\ Finish(c, "ModelVersion.push", e, e, a, g, <<>>)
                 /\ UNCHANGED versions
            ELSE \E id \in upsert_ids({r.version_id : r \in versions},
                                      VersionIdSet, e.version_id) :
                 /\ versions' =
                        upsert_model_version(versions, id,
                                             version_upsert_request(e))
                 /\ Finish(c, "ModelVersion.push", e,
                           [e EXCEPT !.version_id = id], a,
                           Ok(id), <<version_upsert_request(e)>>)
    /\ UNCHANGED <<models, annotations, aliases, directories, blobs, loc>>

ModelVersion_push(c) == ModelVersion_push_on(c, VersionInputs)

\* ------------------------------------------------------------ wire format
\* a PyprModel / PyprModelVersion message with every field at its proto3
\* default: string fields are never None, an unset one reads ""; directory_id
\* is the field of the nested PyprDirectory, a Struct field reads "" when it
\* holds no entry.  PyprModelVersion has no fold_metrics field
NoProto == [model_id |-> "", name |-> "", project_id |-> "",
            latest_version_id |-> "", model_type |-> "",
            sub_model_type |-> "", description |-> "", directory_id |-> "",
            directory_type |-> "", version_id |-> "", version |-> "",
            hyperparameters |-> "", metrics |-> "",
            created_at |-> "", modified_at |-> ""]

\* the model types the platform knows
ModelTypes == {"mt"}

\* Python str() of an optional timestamp: str(None) is the text 'None'
NoneText == "'None'"
str(x) == IF x = None THEN NoneText ELSE x

\* Python int() of a proto string: ValueError unless it spells an integer
int(x) ==
    IF x \in {"t1", "t2", "t9"} THEN Ok(x) ELSE Err("ValueError", "int")

\* a proto3 string field given None in the constructor stays unset
proto_field(x) == IF x = None THEN "" ELSE x

\* ikigai_model.utils.format_utils: the internal and the external spelling of
\* a model type, taken to be inverse of each other
format_model_type_to_external_model_type(t) == "ext:" \o t
format_external_model_type_to_model_type(x) ==
    IF \E t \in ModelTypes : format_model_type_to_external_model_type(t) = x
    THEN CHOOSE t \in ModelTypes :
             format_model_type_to_external_model_type(t) = x
    ELSE x

\* format_hyperparameters / format_metrics, and ParseDict into a Struct: the
\* document as a Struct (the tests show no change on a flat document); the
\* formatter is taken to give the empty Struct for None
format_document(x) == IF x = None THEN "" ELSE x

\* google.protobuf.json_format.MessageToDict on a non-empty Struct
MessageToDict(x) == x

\* Model.to_proto
Model_to_proto(e) ==
    [NoProto EXCEPT
        !.model_id = proto_field(e.model_id),
        !.name = proto_field(e.name),
        !.project_id = proto_field(e.project_id),
        !.latest_version_id = proto_field(e.latest_version_id),
        !.model_type =
            proto_field(IF Truthy(e.model_type)
                        THEN format_model_type_to_external_model_type(
                                 e.model_type)
                        ELSE None),
        !.sub_model_type = proto_field(e.sub_model_type),
        !.description = proto_field(e.description),
        !.directory_id = proto_field(e.directory_id),
        !.directory_type = COMPONENT_TYPES_model,
        !.created_at = str(e.created_at),
        !.modified_at = str(e.modified_at)]

\* ModelVersion.to_proto: the message, or the ParseError of ParseDict on None
ModelVersion_to_proto(e, apply_formatting) ==
    IF ~apply_formatting /\ (e.hyperparameters = None \/ e.metrics = None)
    THEN [r |-> Err("ParseError", "struct"), proto |-> NoProto]
    ELSE [r |-> Ok(None),
          proto |-> [NoProto EXCEPT
              !.version_id = proto_field(e.version_id),
              !.model_id = proto_field(e.model_id),
              !.version = proto_field(e.version),
              !.hyperparameters = format_document(e.hyperparameters),
              !.metrics = format_document(e.metrics),
              !.created_at = str(e.created_at),
              !.modified_at = str(e.modified_at)]]

\* Model.resolve_directory_alias: the body of resolve_alias, for a directory
resolve_directory_alias(rows, directory_id, project_id) ==
    resolve_alias(rows, directory_id, project_id)

\* an outcome of from_proto: result, requests, and the entity constructed
WireOut(r, rq, e) == [r |-> r, rq |-> rq, e |-> e]

\* Model.from_proto: outcome, requests and the Model constructed
Model_from_proto_out(ms, ds, as, obj_proto) ==
    LET model_id == IF obj_proto.model_id /= "" THEN obj_proto.model_id
                    ELSE None
        name == IF obj_proto.name /= "" THEN obj_proto.name ELSE None
        project_id == IF obj_proto.project_id /= ""
                      THEN obj_proto.project_id ELSE None
        rm == IF Truthy(model_id)
              THEN resolve_alias(as, model_id, project_id)
              ELSE [r |-> Ok(model_id), rq |-> <<>>]
    IN
    IF rm.r.kind /= "ok" THEN WireOut(rm.r, rm.rq, NoModel)
    ELSE
      LET rd == IF obj_proto.directory_id /= ""
                THEN resolve_directory_alias(as, obj_proto.directory_id,
                                             project_id)
                ELSE [r |-> Ok(obj_proto.directory_id), rq |-> <<>>]
          rq == rm.rq \o rd.rq
      IN
      IF rd.r.kind /= "ok" THEN WireOut(rd.r, rq, NoModel)
      ELSE
        LET created_at == IF obj_proto.created_at /= ""
                          THEN int(obj_proto.created_at) ELSE Ok(None)
            modified_at == IF obj_proto.modified_at /= ""
                           THEN int(obj_proto.modified_at) ELSE Ok(None)
        IN
        IF created_at.kind /= "ok" THEN WireOut(created_at, rq, NoModel)
        ELSE IF modified_at.kind /= "ok"
        THEN WireOut(modified_at, rq, NoModel)
        ELSE
          LET model ==
                [model_id |-> rm.r.value,
                 name |-> name,
                 project_id |-> project_id,
                 latest_version_id |-> obj_proto.latest_version_id,
                 directory_id |-> rd.r.value,
                 model_type |->
                     IF obj_proto.model_type /= ""
                     THEN format_external_model_type_to_model_type(
                              obj_proto.model_type)
                     ELSE None,
                 sub_model_type |->
                     IF obj_proto.sub_model_type /= ""
                     THEN obj_proto.sub_model_type ELSE None,
                 description |-> obj_proto.description,
                 created_at |-> created_at.value,
                 modified_at |-> modified_at.value]
              v == Model_validate_out(ms, ds, model)
          IN  WireOut(v.r, rq \o v.rq, model)

\* ModelVersion.from_proto: outcome, requests and the ModelVersion constructed
ModelVersion_from_proto_out(vs, as, obj_proto, model_id, project_id) ==
    LET version_id == IF obj_proto.version_id /= "" THEN obj_proto.version_id
                      ELSE None
        version == IF obj_proto.version /= "" THEN obj_proto.version
                   ELSE None
        rv == IF Truthy(version_id)
              THEN resolve_alias(as, version_id, project_id)
              ELSE [r |-> Ok(version_id), rq |-> <<>>]
    IN
    IF rv.r.kind /= "ok" THEN WireOut(rv.r, rv.rq, NoVersion)
    ELSE
      LET created_at == IF obj_proto.created_at /= ""
                        THEN int(obj_proto.created_at) ELSE Ok(None)
          modified_at == IF obj_proto.modified_at /= ""
                         THEN int(obj_proto.modified_at) ELSE Ok(None)
      IN
      IF created_at.kind /= "ok" THEN WireOut(created_at, rv.rq, NoVersion)
      ELSE IF modified_at.kind /= "ok"
      THEN WireOut(modified_at, rv.rq, NoVersion)
      ELSE
        LET model_version ==
              [NoVersion EXCEPT
                  !.model_id = model_id,
                  !.version = version,
                  !.version_id = rv.r.value,
                  !.hyperparameters =
                      IF obj_proto.hyperparameters /= ""
                      THEN MessageToDict(obj_proto.hyperparameters)
                      ELSE None,
                  !.metrics =
                      IF obj_proto.metrics /= ""
                      THEN MessageToDict(obj_proto.metrics) ELSE None,
                  !.created_at = created_at.value,
                  !.modified_at = modified_at.value]
            v == ModelVersion_validate_out(vs, model_version)
        IN  WireOut(v.r, rv.rq \o v.rq, model_version)

\* the messages a caller may hand to Model.from_proto
ModelProtoInputs ==
    {[NoProto EXCEPT !.model_id = i, !.project_id = p, !.name = n,
                     !.directory_id = d, !.directory_type = "model",
                     !.created_at = t, !.modified_at = t] :
        i \in {"", "m1", "@x"}, p \in {"", "p1", "p2"}, n \in {"", "a"},
        d \in {"", "d1", "d2", "@x", "@z"}, t \in {"", "t1", NoneText}}

\* the messages a caller may hand to ModelVersion.from_proto
VersionProtoInputs ==
    {[NoProto EXCEPT !.version_id = i, !.model_id = m, !.version = n,
                     !.hyperparameters = h, !.metrics = h,
                     !.created_at = t, !.modified_at = t] :
        i \in {"", "v1", "@y"}, m \in {"", "m1"}, n \in {"", "a"},
        h \in {"", "hp"}, t \in {"", "t1", NoneText}}

Model_from_proto(c) ==
    /\ pc[c] = "idle"
    /\ \E obj_proto \in ModelProtoInputs :
        LET out == Model_from_proto_out(models, directories, aliases,
                                        obj_proto)
        IN  Finish(c, "Model.from_proto", NoModel, out.e,
                   [NoArgs EXCEPT !.obj_proto = obj_proto], out.r, out.rq)
    /\ UNCHANGED <<store_vars, loc>>

ModelVersion_from_proto(c) ==
    /\ pc[c] = "idle"
    /\ \E obj_proto \in VersionProtoInputs,
          m \in {None} \cup ModelIdSet, p \in {None, "p1"} :
        LET out == ModelVersion_from_proto_out(versions, aliases, obj_proto,
                                               m, p)
        IN  Finish(c, "ModelVersion.from_proto", NoVersion, out.e,
                   [NoArgs EXCEPT !.obj_proto = obj_proto, !.model_id = m,
                                  !.project_id = p],
                   out.r, out.rq)
    /\ UNCHANGED <<store_vars, loc>>

\* a caller builds a Model from a row of the store, converts it to a message
\* and builds a Model from that message
Model_round_trip(c) ==
    /\ pc[c] = "idle"
    /\ \E row \in models :
        LET e == Model_from_namedtuple(row)
            obj_proto == Model_to_proto(e)
            out == Model_from_proto_out(models, directories, aliases,
                                        obj_proto)
        IN  Finish(c, "Model.round_trip", e, out.e,
                   [NoArgs EXCEPT !.obj_proto = obj_proto], out.r, out.rq)
    /\ UNCHANGED <<store_vars, loc>>

\* the same for a ModelVersion; from_proto is given the model of the version
\* and the project of the caller
ModelVersion_round_trip(c) ==
    /\ pc[c] = "idle"
    /\ \E row \in versions, fmt \in BOOLEAN, p \in {None} \cup Projects :
        LET e == ModelVersion_from_namedtuple(row)
            msg == ModelVersion_to_proto(e, fmt)
            a == [NoArgs EXCEPT !.obj_proto = msg.proto,
                                !.model_id = e.model_id, !.project_id = p,
                                !.apply_formatting = fmt]
        IN  IF msg.r.kind /= "ok"
            THEN Finish(c, "ModelVersion.round_trip", e, NoVersion, a,
                        msg.r, <<>>)
            ELSE
              LET out == ModelVersion_from_proto_out(versions, aliases,
                             msg.proto, e.model_id, p)
              IN  Finish(c, "ModelVersion.round_trip", e, out.e, a,
                         out.r, out.rq)
    /\ UNCHANGED <<store_vars, loc>>

\* -------------------------------------------------------------- collections
\* Models.pull / Models.count up to the query: scope guard and resolution of
\* the directory alias; the value is the directory filter to apply
Models_scope(as, project_id, directory_id) ==
    IF ~Truthy(project_id)
    THEN [r |-> Err("InvalidInput", "scope_required"), rq |-> <<>>]
    ELSE IF ~Truthy(directory_id)
    THEN [r |-> Ok(None), rq |-> <<>>]
    ELSE resolve_alias(as, directory_id, project_id)

\* Models.pull: the outcomes the call may have (one per row order)
Models_pull_out(ms, as, project_id, directory_id) ==
    LET sc == Models_scope(as, project_id, directory_id) IN
    IF sc.r.kind /= "ok" THEN {sc}
    ELSE
      LET rows == query_model(ms, [NoKw EXCEPT !.project_id = project_id,
                                               !.directory_id = sc.r.value])
          rq == Append(sc.rq, models_query_request(project_id, sc.r.value,
                                       {"project_id", "directory_id"}))
      IN  {[r |-> Ok([k \in DOMAIN o |-> Model_from_namedtuple(o[k])]),
            rq |-> rq] : o \in Orders(rows)}

\* variant: the directory filter is not passed to the query
Models_count_out_no_directory(ms, as, project_id, directory_id) ==
    LET sc == Models_scope(as, project_id, directory_id) IN
    IF sc.r.kind /= "ok" THEN sc
    ELSE
      LET rows == query_model(ms, [NoKw EXCEPT !.project_id = project_id])
          rq == Append(sc.rq, models_query_request(project_id, None,
                                       {"project_id"}))
      IN  [r |-> Ok(Cardinality(rows)), rq |-> rq]

\* Models.count: outcome and requests
Models_count_out(ms, as, project_id, directory_id) ==
    LET sc == Models_scope(as, project_id, directory_id) IN
    IF sc.r.kind /= "ok" THEN sc
    ELSE
      LET rows == query_model(ms, [NoKw EXCEPT !.project_id = project_id,
                                               !.directory_id = sc.r.value])
          rq == Append(sc.rq, models_query_request(project_id, sc.r.value,
                                       {"project_id", "directory_id"}))
      IN  [r |-> Ok(Cardinality(rows)), rq |-> rq]

versions_query_request(model_id, model_ids) ==
    Request("query", "model_version", "False", {"model_id", "model_ids"},
            [NoKw EXCEPT !.model_id = model_id, !.model_ids = model_ids])

\* ModelVersions.pull: the outcomes the call may have (one per row order)
ModelVersions_pull_out(vs, model_id, model_ids) ==
    IF ~Truthy(model_id) /\ model_ids = {}
    THEN {[r |-> Err("InvalidInput", "scope_required"), rq |-> <<>>]}
    ELSE
      LET rows == query_model_version(vs,
                      [NoKw EXCEPT !.model_id = model_id,
                                   !.model_ids = model_ids])
      IN  {[r |-> Ok([k \in DOMAIN o |->
                          ModelVersion_from_namedtuple(o[k])]),
            rq |-> <<versions_query_request(model_id, model_ids)>>] :
              o \in Orders(rows)}

\* ModelVersions.count: outcome and requests
ModelVersions_count_out(vs, model_id, model_ids) ==
    IF ~Truthy(model_id) /\ model_ids = {}
    THEN [r |-> Err("InvalidInput", "scope_required"), rq |-> <<>>]
    ELSE
      LET rows == query_model_version(vs,
                      [NoKw EXCEPT !.model_id = model_id,
                                   !.model_ids = model_ids])
      IN  [r |-> Ok(Cardinality(rows)),
           rq |-> <<versions_query_request(model_id, model_ids)>>]

DirectoryInputs == {None, ""} \cup DirectoryIds \cup AliasTokens

\* scopes a caller may pass to ModelVersions.pull / count: an empty string
\* model_id is only passed without model_ids
VersionScopeInputs ==
    {[NoArgs EXCEPT !.model_id = m, !.model_ids = ms] :
        m \in {None} \cup ModelIdSet, ms \in SUBSET ModelIdSet}
    \cup {[NoArgs EXCEPT !.model_id = ""]}

Models_pull(c) ==
    /\ pc[c] = "idle"
    /\ \E p \in ProjectInputs, d \in DirectoryInputs :
        \E out \in Models_pull_out(models, aliases, p, d) :
            Finish(c, "Models.pull", NoModel, NoModel,
                   [NoArgs EXCEPT !.project_id = p, !.directory_id = d],
                   out.r, out.rq)
    /\ UNCHANGED <<store_vars, loc>>

Models_count(c) ==
    /\ pc[c] = "idle"
    /\ \E p \in ProjectInputs, d \in DirectoryInputs :
        LET out == Models_count_out(models, aliases, p, d)
        IN  Finish(c, "Models.count", NoModel, NoModel,
                   [NoArgs EXCEPT !.project_id = p, !.directory_id = d],
                   out.r, out.rq)
    /\ UNCHANGED <<store_vars, loc>>

ModelVersions_pull(c) ==
    /\ pc[c] = "idle"
    /\ \E a \in VersionScopeInputs :
        \E out \in ModelVersions_pull_out(versions, a.model_id, a.model_ids) :
            Finish(c, "ModelVersions.pull", NoVersion, NoVersion, a,
                   out.r, out.rq)
    /\ UNCHANGED <<store_vars, loc>>

ModelVersions_count(c) ==
    /\ pc[c] = "idle"
    /\ \E a \in VersionScopeInputs :
        LET out == ModelVersions_count_out(versions, a.model_id, a.model_ids)
        IN  Finish(c, "ModelVersions.count", NoVersion, NoVersion, a,
                   out.r, out.rq)
    /\ UNCHANGED <<store_vars, loc>>

\* ------------------------------------------------------------------- delete
\* caller c invokes a delete operation: it starts at label with locals l
Begin(c, o, e, a, l, label) ==
    /\ pc' = [pc EXCEPT ![c] = label]
    /\ op' = [op EXCEPT ![c] = o]
    /\ ent' = [ent EXCEPT ![c] = e]
    /\ args' = [args EXCEPT ![c] = a]
    /\ loc' = [loc EXCEPT ![c] = l]
    /\ result' = [result EXCEPT ![c] = NoResult]
    /\ calls' = [calls EXCEPT ![c] = <<>>]
    /\ pre' = [pre EXCEPT ![c] = Snapshot(e)]
    /\ UNCHANGED prev

\* the running operation of c issues requests rq and moves on
Move(c, label, l, r, rq) ==
    /\ pc' = [pc EXCEPT ![c] = label]
    /\ loc' = [loc EXCEPT ![c] = l]
    /\ result' = [result EXCEPT ![c] = r]
    /\ calls' = [calls EXCEPT ![c] = calls[c] \o rq]
    /\ UNCHANGED <<op, ent, args, pre, prev>>

\* variant: the annotation cleanup is left out
Model_delete_steps_no_annotation == <<"md_row", "md_blob", "md_alias">>

\* variant: the annotation cleanup runs before the model row is deleted
Model_delete_steps_annotation_first ==
    <<"md_annotation", "md_row", "md_blob", "md_alias">>

\* the statements of Model.delete after the versions are deleted, in order
Model_delete_steps == <<"md_row", "md_blob", "md_annotation", "md_alias">>

\* Models.delete: the loop over the pulled models.  left holds the models not
\* yet visited; when it is empty Models.delete returns
Models_delete_loop(c, l, left, rq) ==
    IF left /= <<>>
    THEN Move(c, "md_pull",
              [l EXCEPT !.mself = Head(left), !.models_left = Tail(left)],
              NoResult, rq)
    ELSE Move(c, "done", [l EXCEPT !.models_left = <<>>], Ok(None), rq)

\* Model.delete continues after a statement; after the last one it returns,
\* to the caller or into the loop of Models.delete
Model_delete_continue(c, label, rq) ==
    LET k == CHOOSE n \in 1..Len(Model_delete_steps) :
                 Model_delete_steps[n] = label
        nxt == IF k = Len(Model_delete_steps) THEN "done"
               ELSE Model_delete_steps[k + 1]
    IN  IF nxt = "done" /\ op[c] = "Models.delete"
        THEN Models_delete_loop(c, loc[c], loc[c].models_left, rq)
        ELSE Move(c, nxt, loc[c],
                  IF nxt = "done" THEN Ok(None) ELSE NoResult, rq)

\* variant: the loop visits the pulled versions from the last to the first
ModelVersions_delete_loop_last_first(c, l, left, rq) ==
    IF left /= <<>>
    THEN Move(c, "vd_pull",
              [l EXCEPT !.vself = left[Len(left)],
                        !.versions_left = SubSeq(left, 1, Len(left) - 1)],
              NoResult, rq)
    ELSE IF op[c] = "ModelVersions.delete"
    THEN Move(c, "done", [l EXCEPT !.versions_left = <<>>], Ok(None), rq)
    ELSE Move(c, Model_delete_steps[1], [l EXCEPT !.versions_left = <<>>],
              NoResult, rq)

\* ModelVersions.delete: the loop over the pulled versions.  left holds the
\* versions not yet visited; when it is empty ModelVersions.delete returns,
\* to the caller or into Model.delete
ModelVersions_delete_loop(c, l, left, rq) ==
    IF left /= <<>>
    THEN Move(c, "vd_pull",
              [l EXCEPT !.vself = Head(left), !.versions_left = Tail(left)],
              NoResult, rq)
    ELSE IF op[c] = "ModelVersions.delete"
    THEN Move(c, "done", [l EXCEPT !.versions_left = <<>>], Ok(None), rq)
    ELSE Move(c, Model_delete_steps[1], [l EXCEPT !.versions_left = <<>>],
              NoResult, rq)

\* variant: a collection delete catches the failure of a member and goes on
\* with the next one
Raise_skip_member(c, r, rq) ==
    IF op[c] = "ModelVersions.delete" /\ pc[c] /= "vs_pull"
    THEN ModelVersions_delete_loop(c, loc[c], loc[c].versions_left, rq)
    ELSE IF op[c] = "Models.delete" /\ pc[c] /= "ms_pull"
    THEN Models_delete_loop(c, loc[c], loc[c].models_left, rq)
    ELSE Move(c, "done", loc[c], r, rq)

\* an exception leaves every enclosing call: the operation ends with it
Raise(c, r, rq) == Move(c, "done", loc[c], r, rq)

\* variant: the delete is keyed by nothing and never issued
Model__delete_noop(ms, model_id) == ms

\* Model._delete
Model__delete(ms, model_id) ==
    ms \ query_model(ms, [NoKw EXCEPT !.model_id = model_id])

\* ModelVersion._delete
ModelVersion__delete(vs, version_id, model_id) ==
    vs \ query_model_version(vs, [NoKw EXCEPT !.version_id = version_id,
                                              !.model_id = model_id])

\* ikigai_component.alias.alias_utils.delete_alias_for_component
delete_alias_for_component(as, component_id) ==
    as \ query_project_alias(as, [NoKw EXCEPT !.component_id = component_id])

\* variant: the annotation delete is keyed by the component type alone
delete_annotation_by_type(ans, component_type, component_id) ==
    ans \ query_annotation(ans,
              [NoKw EXCEPT !.component_type = component_type])

\* database_client.delete on the annotation table, as Model.delete calls it
delete_annotation(ans, component_type, component_id) ==
    ans \ query_annotation(ans,
              [NoKw EXCEPT !.component_type = component_type,
                           !.component_id = component_id])

delete_request(table, keys, kw) == Request("delete", table, "-", keys, kw)

alias_delete_request(component_id) ==
    delete_request("project_alias", {"component_id"},
                   [NoKw EXCEPT !.component_id = component_id])

\* in-memory entities on which a caller invokes delete
ModelDeleteInputs ==
    {[NoModel EXCEPT !.model_id = i, !.project_id = p] :
        i \in {None} \cup ModelIdSet \cup AliasTokens,
        p \in {None} \cup Projects}

VersionDeleteInputs ==
    {[NoVersion EXCEPT !.version_id = i, !.model_id = m] :
        i \in {None} \cup VersionIdSet \cup AliasTokens,
        m \in {None} \cup ModelIdSet}

\* a caller invokes Model.delete on an in-memory Model
Model_delete_call(c) ==
    /\ \E e \in Receivers(c, ModelDeleteInputs) :
        Begin(c, "Model.delete", e, NoArgs,
              [NoLoc EXCEPT !.mself = e], "md_pull")
    /\ UNCHANGED store_vars

\* a caller invokes ModelVersion.delete on an in-memory ModelVersion
ModelVersion_delete_call(c) ==
    /\ \E e \in Receivers(c, VersionDeleteInputs) :
        Begin(c, "ModelVersion.delete", e, NoArgs,
              [NoLoc EXCEPT !.vself = e], "vd_pull")
    /\ UNCHANGED store_vars

\* a caller invokes ModelVersions.delete for a model id
ModelVersions_delete_call(c) ==
    /\ pc[c] = "idle"
    /\ \E m \in {None} \cup ModelIdSet :
        Begin(c, "ModelVersions.delete", NoVersion,
              [NoArgs EXCEPT !.model_id = m],
              [NoLoc EXCEPT !.vs_model_id = m], "vs_pull")
    /\ UNCHANGED store_vars

\* a caller invokes Models.delete for a project and an optional directory
Models_delete_call(c) ==
    /\ pc[c] = "idle"
    /\ \E p \in ProjectInputs, d \in DirectoryInputs :
        Begin(c, "Models.delete", NoModel,
              [NoArgs EXCEPT !.project_id = p, !.directory_id = d],
              NoLoc, "ms_pull")
    /\ UNCHANGED store_vars

\* Models.delete: pull of the models of the scope, start of the loop
Models_delete(c) ==
    /\ pc[c] = "ms_pull"
    /\ \E out \in Models_pull_out(models, aliases, args[c].project_id,
                                  args[c].directory_id) :
         IF out.r.kind /= "ok" THEN Raise(c, out.r, out.rq)
         ELSE Models_delete_loop(c,
                  [loc[c] EXCEPT !.models_pulled = out.r.value],
                  out.r.value, out.rq)
    /\ UNCHANGED store_vars

\* variant: the model row is deleted right after the re-pull, the versions
\* are not visited
Model_delete_versions_skipped(c) ==
    /\ pc[c] = "md_pull"
    /\ LET self == loc[c].mself IN
       IF is_alias(self.model_id)
       THEN Raise(c, Err("InvalidInput", "alias"), <<>>)
       ELSE
         LET out == Model_pull_out(models, aliases, self.model_id, None) IN
         IF out.r.kind /= "ok" THEN Raise(c, out.r, out.rq)
         ELSE Move(c, Model_delete_steps[1],
                   [loc[c] EXCEPT !.model = out.r.value,
                                  !.vs_model_id = self.model_id],
                   NoResult, out.rq)
    /\ UNCHANGED store_vars

\* Model.delete: alias guard and re-pull of the model
Model_delete(c) ==
    /\ pc[c] = "md_pull"
    /\ LET self == loc[c].mself IN
       IF is_alias(self.model_id)
       THEN Raise(c, Err("InvalidInput", "alias"), <<>>)
       ELSE
         LET out == Model_pull_out(models, aliases, self.model_id, None) IN
         IF out.r.kind /= "ok" THEN Raise(c, out.r, out.rq)
         ELSE Move(c, "vs_pull",
                   [loc[c] EXCEPT !.model = out.r.value,
                                  !.vs_model_id = self.model_id],
                   NoResult, out.rq)
    /\ UNCHANGED store_vars

\* ModelVersions.delete: pull of the versions of the model, start of the loop
ModelVersions_delete(c) ==
    /\ pc[c] = "vs_pull"
    /\ \E out \in ModelVersions_pull_out(versions, loc[c].vs_model_id, {}) :
         IF out.r.kind /= "ok" THEN Raise(c, out.r, out.rq)
         ELSE ModelVersions_delete_loop(c,
                  [loc[c] EXCEPT !.versions_pulled = out.r.value],
                  out.r.value, out.rq)
    /\ UNCHANGED store_vars

\* variant: the re-pull is keyed by the version_id alone
ModelVersion_delete_pull_by_id(c) ==
    /\ pc[c] = "vd_pull"
    /\ LET self == loc[c].vself IN
       IF is_alias(self.version_id)
       THEN Raise(c, Err("InvalidInput", "alias"), <<>>)
       ELSE
         LET out == ModelVersion_pull_out(versions, aliases,
                        self.version_id, None, None) IN
         IF out.r.kind /= "ok" THEN Raise(c, out.r, out.rq)
         ELSE Move(c, "vd_row",
                   [loc[c] EXCEPT !.model_version = out.r.value],
                   NoResult, out.rq)
    /\ UNCHANGED store_vars

\* ModelVersion.delete: alias guard and re-pull of the version
ModelVersion_delete(c) ==
    /\ pc[c] = "vd_pull"
    /\ LET self == loc[c].vself IN
       IF is_alias(self.version_id)
       THEN Raise(c, Err("InvalidInput", "alias"), <<>>)
       ELSE
         LET out == ModelVersion_pull_out(versions, aliases,
                        self.version_id, self.model_id, None) IN
         IF out.r.kind /= "ok" THEN Raise(c, out.r, out.rq)
         ELSE Move(c, "vd_row",
                   [loc[c] EXCEPT !.model_version = out.r.value],
                   NoResult, out.rq)
    /\ UNCHANGED store_vars

\* variant: the row delete also clears the latest_version_id of the models
\* that reference the version
ModelVersion_delete_row_unlinks(c) ==
    /\ pc[c] = "vd_row"
    /\ LET mv == loc[c].model_version IN
       /\ versions' = ModelVersion__delete(versions, mv.version_id,
                                           mv.model_id)
       /\ models' = {IF r.latest_version_id = mv.version_id
                     THEN [r EXCEPT !.latest_version_id = None] ELSE r :
                         r \in models}
       /\ Move(c, "vd_alias", loc[c], NoResult,
               <<delete_request("model_version", {"version_id", "model_id"},
                     [NoKw EXCEPT !.version_id = mv.version_id,
                                  !.model_id = mv.model_id])>>)
    /\ UNCHANGED <<annotations, aliases, directories, blobs>>

\* variant: the row delete is keyed by the ids of the in-memory entity
ModelVersion_delete_row_by_self(c) ==
    /\ pc[c] = "vd_row"
    /\ LET mv == loc[c].vself IN
       /\ versions' = ModelVersion__delete(versions, mv.version_id,
                                           mv.model_id)
       /\ Move(c, "vd_alias", loc[c], NoResult,
               <<delete_request("model_version", {"version_id", "model_id"},
                     [NoKw EXCEPT !.version_id = mv.version_id,
                                  !.model_id = mv.model_id])>>)
    /\ UNCHANGED <<models, annotations, aliases, directories, blobs>>

\* ModelVersion.delete: delete of the version row
ModelVersion_delete_row(c) ==
    /\ pc[c] = "vd_row"
    /\ LET mv == loc[c].model_version IN
       /\ versions' = ModelVersion__delete(versions, mv.version_id,
                                           mv.model_id)
       /\ Move(c, "vd_alias", loc[c], NoResult,
               <<delete_request("model_version", {"version_id", "model_id"},
                     [NoKw EXCEPT !.version_id = mv.version_id,
                                  !.model_id = mv.model_id])>>)
    /\ UNCHANGED <<models, annotations, aliases, directories, blobs>>

\* ModelVersion.delete: delete of the aliases of the version, then return
ModelVersion_delete_alias(c) ==
    /\ pc[c] = "vd_alias"
    /\ LET mv == loc[c].model_version
           rq == <<alias_delete_request(mv.version_id)>>
       IN
       /\ aliases' = delete_alias_for_component(aliases, mv.version_id)
       /\ IF op[c] = "ModelVersion.delete"
          THEN Move(c, "done", loc[c], Ok(None), rq)
          ELSE ModelVersions_delete_loop(c, loc[c], loc[c].versions_left, rq)
    /\ UNCHANGED <<models, versions, annotations, directories, blobs>>

\* variant: the store deletes the versions of a model with its row
Model_delete_row_with_versions(c) ==
    /\ pc[c] = "md_row"
    /\ LET model == loc[c].model IN
       /\ models' = Model__delete(models, model.model_id)
       /\ versions' = {v \in versions : v.model_id /= model.model_id}
       /\ Model_delete_continue(c, "md_row",
              <<delete_request("model", {"model_id"},
                    [NoKw EXCEPT !.model_id = model.model_id])>>)
    /\ UNCHANGED <<annotations, aliases, directories, blobs>>

\* Model.delete: delete of the model row
Model_delete_row(c) ==
    /\ pc[c] = "md_row"
    /\ LET model == loc[c].model IN
       /\ models' = Model__delete(models, model.model_id)
       /\ Model_delete_continue(c, "md_row",
              <<delete_request("model", {"model_id"},
                    [NoKw EXCEPT !.model_id = model.model_id])>>)
    /\ UNCHANGED <<versions, annotations, aliases, directories, blobs>>

\* variant: the folder is named after the project_id of the in-memory Model
Model_delete_blob_by_self(c) ==
    /\ pc[c] = "md_blob"
    /\ LET model == loc[c].mself IN
       /\ blobs' = delete_directory(blobs, model.project_id, model.model_id)
       /\ Model_delete_continue(c, "md_blob",
              <<Request("delete_directory", "object_store", "-",
                        {"bucket", "object_store_path"},
                        [NoKw EXCEPT !.project_id = model.project_id,
                                     !.model_id = model.model_id])>>)
    /\ UNCHANGED <<models, versions, annotations, aliases, directories>>

\* Model.delete: delete of the model folder project_id/model_id
Model_delete_blob(c) ==
    /\ pc[c] = "md_blob"
    /\ LET model == loc[c].model IN
       /\ blobs' = delete_directory(blobs, model.project_id, model.model_id)
       /\ Model_delete_continue(c, "md_blob",
              <<Request("delete_directory", "object_store", "-",
                        {"bucket", "object_store_path"},
                        [NoKw EXCEPT !.project_id = model.project_id,
                                     !.model_id = model.model_id])>>)
    /\ UNCHANGED <<models, versions, annotations, aliases, directories>>

\* Model.delete: delete of the annotations of the model
Model_delete_annotation(c) ==
    /\ pc[c] = "md_annotation"
    /\ LET model == loc[c].model IN
       /\ annotations' = delete_annotation(annotations,
                             COMPONENT_TYPES_model, model.model_id)
       /\ Model_delete_continue(c, "md_annotation",
              <<delete_request("annotation",
                    {"component_type", "component_id"},
                    [NoKw EXCEPT !.component_type = COMPONENT_TYPES_model,
                                 !.component_id = model.model_id])>>)
    /\ UNCHANGED <<models, versions, aliases, directories, blobs>>

\* Model.delete: delete of the aliases of the model
Model_delete_alias(c) ==
    /\ pc[c] = "md_alias"
    /\ LET model == loc[c].model IN
       /\ aliases' = delete_alias_for_component(aliases, model.model_id)
       /\ Model_delete_continue(c, "md_alias",
              <<alias_delete_request(model.model_id)>>)
    /\ UNCHANGED <<models, versions, annotations, directories, blobs>>

Next ==
    \/ Model_resolve_alias("c1")
    \/ ModelVersion_resolve_alias("c1")
    \/ Model_pull("c1")
    \/ ModelVersion_pull("c1")
    \/ Model_validate("c1")
    \/ ModelVersion_validate("c1")
    \/ Model_push("c1")
    \/ ModelVersion_push("c1")
    \/ Models_pull("c1")
    \/ Models_count("c1")
    \/ ModelVersions_pull("c1")
    \/ ModelVersions_count("c1")
    \/ Model_delete_call("c1")
    \/ ModelVersion_delete_call("c1")
    \/ ModelVersions_delete_call("c1")
    \/ Model_delete("c1")
    \/ ModelVersions_delete("c1")
    \/ ModelVersion_delete("c1")
    \/ ModelVersion_delete_row("c1")
    \/ ModelVersion_delete_alias("c1")
    \/ Model_delete_row("c1")
    \/ Model_delete_blob("c1")
    \/ Model_delete_annotation("c1")
    \/ Model_delete_alias("c1")

Spec == Init /\ [][Next]_vars

\* a caller that holds one entity and calls validate and push on it, in any
\* order and any number of times
NextSeq ==
    \/ Model_validate("c1")
    \/ ModelVersion_validate("c1")
    \/ Model_push("c1")
    \/ ModelVersion_push("c1")
    \/ Return("c1")

\* the stores the sequences start from: every model is named, the versions
\* are those of the first model, the dependent records exist
InitSeq ==
    /\ models \in TableChoices([id \in ModelIdSet |->
                      {r \in ModelRowChoices(id) : r.name = "a"}])
    /\ versions \in
           TableChoices([id \in VersionIdSet |->
               {r \in VersionRowChoices(id) : r.model_id = "m1"}])
    /\ directories = InitDirectories
    /\ annotations = InitAnnotations(models)
    /\ aliases = InitAliases(models, versions)
    /\ blobs = InitBlobs(models, versions)
    /\ Idle

SpecSeq == InitSeq /\ [][NextSeq]_vars

\* the stores the delete sequences start from: every version belongs to a
\* stored model and the dependent records exist
InitRedo ==
    /\ models \in TableChoices([id \in ModelIdSet |->
                      {r \in ModelRowChoices(id) : r.name = "a"}])
    /\ versions \in
           TableChoices([id \in VersionIdSet |-> VersionRowChoices(id)])
    /\ \A v \in versions : \E m \in models : m.model_id = v.model_id
    /\ directories = InitDirectories
    /\ annotations = InitAnnotations(models)
    /\ aliases = InitAliases(models, versions)
    /\ blobs = InitBlobs(models, versions)
    /\ Idle

\* a caller that holds one entity and calls delete on it, again and again
StepRedo(c) ==
    \/ Model_delete_call(c)
    \/ ModelVersion_delete_call(c)
    \/ Model_delete(c)
    \/ ModelVersions_delete(c)
    \/ ModelVersion_delete(c)
    \/ ModelVersion_delete_row(c)
    \/ ModelVersion_delete_alias(c)
    \/ Model_delete_row(c)
    \/ Model_delete_blob(c)
    \/ Model_delete_annotation(c)
    \/ Model_delete_alias(c)
    \/ Return(c)

NextRedo == StepRedo("c1")

SpecRedo == InitRedo /\ [][NextRedo]_vars

\* the running delete of c is interrupted before its next store call (the
\* process crashes, or the collaborator raises without effect): there is no
\* try/except in the cascade, the operation ends with that failure
Interrupt(c) ==
    /\ pc[c] \in {"md_pull", "vs_pull", "vd_pull", "vd_row", "vd_alias"}
                  \cup {Model_delete_steps[k] : k \in DOMAIN Model_delete_steps}
    /\ Raise(c, Err("Failure", "interrupted"), <<>>)
    /\ UNCHANGED store_vars

\* a caller that re-invokes delete on its entity after interruptions
NextRetry ==
    \/ StepRedo("c1")
    \/ Interrupt("c1")

SpecRetry == InitRedo /\ [][NextRetry]_vars

\* the statements of the delete cascade, as run inside any delete operation
StepCascade(c) ==
    \/ Model_delete(c)
    \/ ModelVersions_delete(c)
    \/ ModelVersion_delete(c)
    \/ ModelVersion_delete_row(c)
    \/ ModelVersion_delete_alias(c)
    \/ Model_delete_row(c)
    \/ Model_delete_blob(c)
    \/ Model_delete_annotation(c)
    \/ Model_delete_alias(c)

\* a caller deletes a collection; a store call of a member's delete may fail
NextColl ==
    \/ Models_delete_call("c1")
    \/ ModelVersions_delete_call("c1")
    \/ Models_delete("c1")
    \/ StepCascade("c1")
    \/ Interrupt("c1")

SpecColl == InitRedo /\ [][NextColl]_vars

\* the entities two callers create under the same name: new models named
\* "a", with or without a directory
NewModelInputs ==
    {[NoModel EXCEPT !.project_id = p, !.name = "a", !.directory_id = d] :
        p \in Projects, d \in {None, "d1"}}

\* two callers that each validate and then push a new model, their steps
\* interleaved in any order
NextRace ==
    \/ Model_validate_on("c1", NewModelInputs)
    \/ Model_push_on("c1", NewModelInputs)
    \/ Return("c1")
    \/ Model_validate_on("c2", NewModelInputs)
    \/ Model_push_on("c2", NewModelInputs)
    \/ Return("c2")

\* the stores the callers start from: models with or without a name, no
\* versions
InitRace ==
    /\ models \in TableChoices([id \in ModelIdSet |-> ModelRowChoices(id)])
    /\ versions = {}
    /\ directories = InitDirectories
    /\ annotations = InitAnnotations(models)
    /\ aliases = InitAliases(models, versions)
    /\ blobs = InitBlobs(models, versions)
    /\ Idle

SpecRace == InitRace /\ [][NextRace]_vars

\* rows of the model table with every column set
DetailedModelRows(id) ==
    {[model_id |-> id, project_id |-> "p1", name |-> "a",
      latest_version_id |-> "v1", model_type |-> "mt",
      sub_model_type |-> "smt", description |-> "text",
      directory_id |-> "d1", created_at |-> "t1", modified_at |-> "t1"]}

\* the stores the conversions start from: named models, versions of the
\* first model, rows with the optional columns empty or set
InitWire ==
    /\ models \in
           TableChoices([id \in ModelIdSet |->
               {r \in ModelRowChoices(id) : r.name = "a"}
                   \cup DetailedModelRows(id)])
    /\ versions \in
           TableChoices([id \in VersionIdSet |->
               {r \in VersionRowChoices(id) : r.model_id = "m1"}
                   \cup {[version_id |-> id, model_id |-> "m1",
                          version |-> "a", hyperparameters |-> "hp",
                          metrics |-> "mx", fold_metrics |-> "fm",
                          created_at |-> "t1", modified_at |-> "t1"]}])
    /\ directories = InitDirectories
    /\ annotations = InitAnnotations(models)
    /\ aliases = InitAliases(models, versions)
    /\ blobs = InitBlobs(models, versions)
    /\ Idle

\* Models a caller constructs directly; the directory reference may be an
\* alias token
DirectModelInputs ==
    {[NoModel EXCEPT !.model_id = i, !.project_id = p, !.name = n,
                     !.directory_id = d] :
        i \in {None, "m1"}, p \in {None, "p1"}, n \in {None, "a"},
        d \in {None, "d1", "@x", "@z"}}

\* the Model caller c holds: the one from_proto returned, or the one it
\* validated or pushed before
HeldModel(c) ==
    IF /\ pc[c] = "held"
       /\ \/ op[c] \in {"Model.validate", "Model.push"}
          \/ op[c] = "Model.from_proto" /\ result[c].kind = "ok"
    THEN {ent[c]}
    ELSE {}

\* a caller that converts entities from and to messages, and validates and
\* pushes the Models it built
NextWire ==
    \/ Model_from_proto("c1")
    \/ ModelVersion_from_proto("c1")
    \/ Model_round_trip("c1")
    \/ ModelVersion_round_trip("c1")
    \/ Model_validate_on("c1", DirectModelInputs \cup HeldModel("c1"))
    \/ Model_push_on("c1", DirectModelInputs \cup HeldModel("c1"))
    \/ Return("c1")

SpecWire == InitWire /\ [][NextWire]_vars

\* the stores validate is checked on: models and versions with a legal name,
\* an illegal one (written by a push that no validate preceded) or none
InitOrder ==
    /\ models \in TableChoices([id \in ModelIdSet |-> ModelRowChoices(id)])
    /\ versions \in
           TableChoices([id \in VersionIdSet |->
               {[r EXCEPT !.version = n] :
                    r \in VersionRowChoices(id), n \in Names}])
    /\ directories = InitDirectories
    /\ annotations = InitAnnotations(models)
    /\ aliases = InitAliases(models, versions)
    /\ blobs = InitBlobs(models, versions)
    /\ Idle

\* a caller that validates an entity
NextOrder ==
    \/ Model_validate("c1")
    \/ ModelVersion_validate("c1")

SpecOrder == InitOrder /\ [][NextOrder]_vars

\* the stores a single caller starts from: model names unique per project
InitGuarded ==
    /\ models \in TableChoices([id \in ModelIdSet |-> ModelRowChoices(id)])
    /\ \A r1, r2 \in models :
           (/\ r1.model_id /= r2.model_id
            /\ r1.project_id = r2.project_id
            /\ Truthy(r1.name))
               => r1.name /= r2.name
    /\ versions = {}
    /\ directories = InitDirectories
    /\ annotations = InitAnnotations(models)
    /\ aliases = InitAliases(models, versions)
    /\ blobs = InitBlobs(models, versions)
    /\ Idle

\* Model.push right after a successful Model.validate of the same entity,
\* whose project_id is set
Model_push_validated(c) ==
    /\ pc[c] = "held"
    /\ op[c] = "Model.validate"
    /\ result[c].kind = "ok"
    /\ Truthy(ent[c].project_id)
    /\ Model_push_on(c, {ent[c]})

\* the caller lets go of the entity it holds and builds another one
Release(c) ==
    /\ pc[c] = "held"
    /\ pc' = [pc EXCEPT ![c] = "idle"]
    /\ UNCHANGED <<store_vars, op, ent, args, loc, result, calls, pre, prev>>

\* one caller: every push follows a successful validate; the Models it
\* builds are new or existing, with or without a project and a name
NextGuarded ==
    \/ Model_validate_on("c1",
           {[NoModel EXCEPT !.model_id = i, !.project_id = p, !.name = n] :
               i \in {None} \cup ModelIdSet, p \in {None} \cup Projects,
               n \in {None} \cup Names})
    \/ Model_push_validated("c1")
    \/ Return("c1")
    \/ Release("c1")

SpecGuarded == InitGuarded /\ [][NextGuarded]_vars

\* the stores a version is deleted from: a model may name a latest version
InitUnlink ==
    /\ models \in
           TableChoices([id \in ModelIdSet |->
               {r \in ModelRowChoices(id) : r.name = "a"}
                   \cup DetailedModelRows(id)])
    /\ versions \in
           TableChoices([id \in VersionIdSet |-> VersionRowChoices(id)])
    /\ directories = InitDirectories
    /\ annotations = InitAnnotations(models)
    /\ aliases = InitAliases(models, versions)
    /\ blobs = InitBlobs(models, versions)
    /\ Idle

\* a caller that deletes one version
NextUnlink ==
    \/ ModelVersion_delete_call("c1")
    \/ ModelVersion_delete("c1")
    \/ ModelVersion_delete_row("c1")
    \/ ModelVersion_delete_alias("c1")

SpecUnlink == InitUnlink /\ [][NextUnlink]_vars

\* one caller deletes a model while a second caller pushes new versions, of
\* any model, their steps interleaved in any order
NextOrphan ==
    \/ Model_delete_call("c1")
    \/ StepCascade("c1")
    \/ ModelVersion_push_on("c2",
           {[NoVersion EXCEPT !.model_id = m, !.version = n] :
               m \in ModelIdSet, n \in {None, "a"}})

SpecOrphan == InitRedo /\ [][NextOrphan]_vars

\* =================================================================== claims
Done(c, o) == pc[c] = "done" /\ op[c] = o
Succeeded(c, o) == Done(c, o) /\ result[c].kind = "ok"

\* number of requests of rq of the given kind
CountKind(rq, kind) == Cardinality({i \in DOMAIN rq : rq[i].kind = kind})

\* number of delete requests of rq on the given table
CountDelete(rq, table) ==
    Cardinality({i \in DOMAIN rq : /\ rq[i].kind = "delete"
                                   /\ rq[i].table = table})

\* number of alias deletes of rq for component id
CountAliasDelete(rq, id) ==
    Cardinality({i \in DOMAIN rq : /\ rq[i].kind = "delete"
                                   /\ rq[i].table = "project_alias"
                                   /\ rq[i].kw.component_id = id})

\* number of version-row deletes of rq for version id
CountVersionDelete(rq, id) ==
    Cardinality({i \in DOMAIN rq : /\ rq[i].kind = "delete"
                                   /\ rq[i].table = "model_version"
                                   /\ rq[i].kw.version_id = id})

\* versions that belonged to model m when the operation of c began
VersionsBefore(c, m) == {v \in pre[c].versions : v.model_id = m}

\* C1: after Model.delete returns successfully for a model M, the store holds
\* no model row for M, no version row whose model_id is M, no annotation
\* tagged (model, M), no alias pointing at M or at a version that belonged to
\* M, and no object under M's blob namespace.
C1_DeleteRemovesCascade ==
    \A c \in Callers :
        Succeeded(c, "Model.delete") =>
            LET M == pre[c].ent.model_id IN
            /\ ~\E r \in models : r.model_id = M
            /\ ~\E r \in versions : r.model_id = M
            /\ ~\E r \in annotations :
                   r.component_type = "model" /\ r.component_id = M
            /\ ~\E r \in aliases : r.component_id = M
            /\ \A v \in VersionsBefore(c, M) :
                   ~\E r \in aliases : r.component_id = v.version_id
            /\ \A r \in pre[c].models :
                   r.model_id = M =>
                       ~\E o \in blobs : o[1] = r.project_id /\ o[2] = M

\* a successful Model.delete of a model that had two versions, an alias of
\* its own, an aliased version, an annotation and blob objects
C1_Witness ==
    \E c \in Callers :
        /\ Succeeded(c, "Model.delete")
        /\ LET M == pre[c].ent.model_id IN
           /\ Cardinality(VersionsBefore(c, M)) >= 2
           /\ \E r \in pre[c].aliases : r.component_id = M
           /\ \E r \in pre[c].aliases, v \in VersionsBefore(c, M) :
                  r.component_id = v.version_id
           /\ \E r \in pre[c].annotations : r.component_id = M
           /\ \E o \in pre[c].blobs : o[2] = M

\* C2: for a model owning n versions, a successful Model.delete issues
\* exactly n version-row deletes, 1 model-row delete, 1 annotation delete,
\* 1 alias delete for the model id, n alias deletes (one per version id) and
\* 1 blob-namespace delete: 2n+3 store deletes, and no other write.
C2_DeleteCallCounts ==
    \A c \in Callers :
        Succeeded(c, "Model.delete") =>
            LET M == pre[c].ent.model_id
                vs == VersionsBefore(c, M)
                n == Cardinality(vs)
                rq == calls[c]
            IN
            /\ CountDelete(rq, "model_version") = n
            /\ \A v \in vs :
                   /\ CountVersionDelete(rq, v.version_id) = 1
                   /\ CountAliasDelete(rq, v.version_id) = 1
            /\ CountDelete(rq, "model") = 1
            /\ CountDelete(rq, "annotation") = 1
            /\ CountAliasDelete(rq, M) = 1
            /\ CountDelete(rq, "project_alias") = n + 1
            /\ CountKind(rq, "delete_directory") = 1
            /\ CountKind(rq, "delete") = 2 * n + 3
            /\ \A i \in DOMAIN rq :
                   rq[i].kind \in {"query", "delete", "delete_directory"}

\* a successful Model.delete of a model that owned at least two versions
C2_Witness ==
    \E c \in Callers :
        /\ Succeeded(c, "Model.delete")
        /\ Cardinality(VersionsBefore(c, pre[c].ent.model_id)) >= 2
        /\ Len(calls[c]) >= 2 * 2 + 3

\* the phase of Model.delete a request belongs to, for model id M
Phase(q, M) ==
    IF q.kind = "query" /\ q.table = "model" THEN 1
    ELSE IF q.kind = "query" /\ q.fetchone = "False" THEN 2
    ELSE IF q.table = "model_version" THEN 3
    ELSE IF q.table = "project_alias" /\ q.kw.component_id /= M THEN 3
    ELSE IF q.kind = "delete" /\ q.table = "model" THEN 4
    ELSE IF q.kind = "delete_directory" THEN 5
    ELSE IF q.table = "annotation" THEN 6
    ELSE 7

\* C3: Model.delete performs its steps in this order: re-pull of the model,
\* delete of every child version (re-pull, row, aliases of each), delete of
\* the model row, of the blob namespace, of the annotations, of the model's
\* aliases; the model-row delete precedes the annotation and alias cleanup.
C3_DeleteOrder ==
    \A c \in Callers :
        op[c] = "Model.delete" =>
            LET M == pre[c].ent.model_id
                rq == calls[c]
                n == Cardinality(VersionsBefore(c, M))
            IN
            \* at every moment the requests issued so far follow the phases
            /\ \A i, j \in DOMAIN rq :
                   i < j => Phase(rq[i], M) <= Phase(rq[j], M)
            /\ \A i, j \in DOMAIN rq :
                   (i /= j /\ Phase(rq[i], M) = Phase(rq[j], M))
                       => Phase(rq[i], M) = 3
            \* a successful run has issued exactly this sequence
            /\ Succeeded(c, "Model.delete") =>
                /\ Len(rq) = 3 * n + 6
                /\ rq[1] = model_query_request(M)
                /\ rq[2] = versions_query_request(M, {})
                /\ \A k \in 1..n :
                     \E v \in VersionsBefore(c, M) :
                       /\ rq[3 * k] = version_query_request(v.version_id, M)
                       /\ rq[3 * k + 1].kind = "delete"
                       /\ rq[3 * k + 1].table = "model_version"
                       /\ rq[3 * k + 1].kw.version_id = v.version_id
                       /\ rq[3 * k + 2] = alias_delete_request(v.version_id)
                /\ rq[3 * n + 3].kind = "delete"
                /\ rq[3 * n + 3].table = "model"
                /\ rq[3 * n + 4].kind = "delete_directory"
                /\ rq[3 * n + 5].kind = "delete"
                /\ rq[3 * n + 5].table = "annotation"
                /\ rq[3 * n + 6] = alias_delete_request(M)

\* a successful Model.delete whose cascade covered two versions in turn
C3_Witness ==
    \E c \in Callers :
        /\ Succeeded(c, "Model.delete")
        /\ Len(calls[c]) >= 12
        /\ calls[c][3].kw.version_id /= calls[c][6].kw.version_id

\* the identity field of the entity on which the operation of c was invoked
IdentityBefore(c) ==
    IF op[c] \in {"Model.push", "Model.delete"}
    THEN pre[c].ent.model_id
    ELSE pre[c].ent.version_id

\* C4: push and delete on a Model or ModelVersion whose identity field is an
\* alias token fail with InvalidInput and issue no store query, upsert or
\* delete; the entity and the store are left unchanged.
C4_AliasIdentityRejected ==
    \A c \in Callers :
        (/\ op[c] \in {"Model.push", "Model.delete",
                       "ModelVersion.push", "ModelVersion.delete"}
         /\ IdentityBefore(c) \in AliasTokens) =>
            /\ calls[c] = <<>>
            /\ Snapshot(ent[c]) = pre[c]
            /\ pc[c] \in {"md_pull", "vd_pull", "done"}
            /\ pc[c] = "done" => result[c].kind = "InvalidInput"

\* Model.push, with a store handle, of an entity whose model_id is an alias
\* the store could resolve
C4_Witness ==
    \E c \in Callers :
        /\ Done(c, "Model.push")
        /\ args[c].database_client
        /\ \E r \in aliases : r.alias = pre[c].ent.model_id
        /\ result[c].kind = "InvalidInput"

\* the id and project passed to resolve_alias by caller c
ResolvedId(c) ==
    IF op[c] = "Model.resolve_alias" THEN args[c].model_id
    ELSE args[c].version_id

\* C5: resolve_alias(id, project_id) returns a non-alias id unchanged without
\* store access; fails InvalidInput without store access for an alias with an
\* empty project_id; otherwise returns the canonical id mapped for the alias
\* in that project, or fails NotFound when the alias has no mapping there.
C5_ResolveAlias ==
    \A c \in Callers :
        (Done(c, "Model.resolve_alias")
            \/ Done(c, "ModelVersion.resolve_alias")) =>
            LET id == ResolvedId(c)
                p == args[c].project_id
                maps == {r \in aliases : r.alias = id /\ r.project_id = p}
            IN  IF id \notin AliasTokens
                THEN result[c] = Ok(id) /\ calls[c] = <<>>
                ELSE IF p \in {None, ""}
                THEN /\ result[c].kind = "InvalidInput"
                     /\ calls[c] = <<>>
                ELSE IF maps = {}
                THEN result[c].kind = "NotFound"
                ELSE /\ result[c].kind = "ok"
                     /\ \E r \in maps : result[c].value = r.component_id

\* an alias registered in the given project was resolved to its model id
C5_Witness ==
    \E c \in Callers :
        /\ Done(c, "Model.resolve_alias")
        /\ args[c].model_id \in AliasTokens
        /\ result[c].kind = "ok"
        /\ result[c].value \in ModelIdSet

\* C6: Model.pull with an empty/None model_id and ModelVersion.pull with an
\* empty/None version_id fail with NotFound before any store or
\* alias-resolver call is attempted.
C6_PullRequiresId ==
    \A c \in Callers :
        (\/ Done(c, "Model.pull") /\ args[c].model_id \in {None, ""}
         \/ Done(c, "ModelVersion.pull") /\ args[c].version_id \in {None, ""})
            => /\ result[c].kind = "NotFound"
               /\ calls[c] = <<>>

\* Model.pull(model_id=None) on a store that holds models, with a project
C6_Witness ==
    \E c \in Callers :
        /\ Done(c, "Model.pull")
        /\ args[c].model_id = None
        /\ args[c].project_id \in Projects
        /\ models /= {}
        /\ result[c].kind = "NotFound"

\* C7: Models.pull / Models.count with an empty project_id, and
\* ModelVersions.pull / ModelVersions.count with model_id and model_ids both
\* empty, fail with InvalidInput and issue no store query; with a non-empty
\* scope, count returns exactly the number of entities pull returns for the
\* same filters on the same store state.
C7_CollectionScope ==
    \A c \in Callers :
        LET a == args[c] IN
        /\ ((Done(c, "Models.pull") \/ Done(c, "Models.count"))
               /\ a.project_id \in {None, ""})
             => result[c].kind = "InvalidInput" /\ calls[c] = <<>>
        /\ ((Done(c, "ModelVersions.pull") \/ Done(c, "ModelVersions.count"))
               /\ a.model_id \in {None, ""} /\ a.model_ids = {})
             => result[c].kind = "InvalidInput" /\ calls[c] = <<>>
        /\ Succeeded(c, "Models.count") =>
             \A out \in Models_pull_out(models, aliases, a.project_id,
                                        a.directory_id) :
                 out.r.kind = "ok" /\ Len(out.r.value) = result[c].value
        /\ Succeeded(c, "Models.pull") =>
             LET out == Models_count_out(models, aliases, a.project_id,
                                         a.directory_id)
             IN  out.r.kind = "ok" /\ out.r.value = Len(result[c].value)
        /\ Succeeded(c, "ModelVersions.count") =>
             \A out \in ModelVersions_pull_out(versions, a.model_id,
                                               a.model_ids) :
                 out.r.kind = "ok" /\ Len(out.r.value) = result[c].value
        /\ Succeeded(c, "ModelVersions.pull") =>
             LET out == ModelVersions_count_out(versions, a.model_id,
                                                a.model_ids)
             IN  out.r.kind = "ok" /\ out.r.value = Len(result[c].value)

\* Models.count with a directory filter that excludes a model of the project
C7_Witness ==
    \E c \in Callers :
        /\ Succeeded(c, "Models.count")
        /\ args[c].directory_id \in DirectoryIds
        /\ result[c].value >= 1
        /\ Cardinality({r \in models : r.project_id = args[c].project_id})
               > result[c].value

\* the stored rows with the identity of the entity of caller c
StoredModel(c) == {r \in models : r.model_id = ent[c].model_id}

\* caller c validated a new Model, or one whose record exists
NewOrExisting(c) == ent[c].model_id = None \/ StoredModel(c) /= {}

\* another model holds name n in project p
HeldByOther(c, n, p) ==
    \E r \in models :
        r.model_id /= ent[c].model_id /\ r.name = n /\ r.project_id = p

\* C8: Model.validate fails with InvalidInput whenever the entity's non-empty
\* name equals the name of a different Model stored in the same project (the
\* entity's project_id, or the stored record's); this holds for new entities
\* (no model_id) and for existing ones.
C8_NameCollisionRejected ==
    \A c \in Callers :
        Done(c, "Model.validate") =>
            LET e == ent[c] IN
            (/\ NewOrExisting(c)
             /\ e.name \in Names
             /\ \/ HeldByOther(c, e.name, e.project_id)
                \/ \E s \in StoredModel(c) :
                       HeldByOther(c, e.name, s.project_id))
              => /\ result[c].kind = "InvalidInput"
                 /\ (\A s \in StoredModel(c) :
                        e.project_id \in {None, s.project_id})
                      => result[c].tag = "exists"

\* validate of an existing model renamed to the name of a sibling
C8_Witness ==
    \E c \in Callers :
        /\ Done(c, "Model.validate")
        /\ \E s \in StoredModel(c) :
              /\ s.name /= ent[c].name
              /\ ent[c].project_id = s.project_id
              /\ HeldByOther(c, ent[c].name, s.project_id)
        /\ result[c].tag = "exists"

\* validate_filename was run by the operation of caller c
RanValidateFilename(c) ==
    \E i \in DOMAIN calls[c] : calls[c][i].kind = "validate_filename"

\* the directory reference of the entity of c is absent or names a model
\* directory of the entity's project
DirectoryOk(c) ==
    \/ ent[c].directory_id = None
    \/ \E d \in directories :
           /\ d.directory_id = ent[c].directory_id
           /\ d.project_id = ent[c].project_id
           /\ d.type = "model"

\* C9 as stated: Model.validate on an existing record whose in-memory name
\* equals the stored name succeeds without running syntax validation, provided
\* no other model in the project holds the name.
C9_Original ==
    \A c \in Callers :
        Done(c, "Model.validate") =>
            \A s \in StoredModel(c) :
                (/\ ent[c].name \in Names
                 /\ ent[c].name = s.name
                 /\ ~HeldByOther(c, s.name, s.project_id))
                  => result[c].kind = "ok" /\ ~RanValidateFilename(c)

\* C9 amended: Model.validate on an existing record whose in-memory name
\* equals the stored name never runs syntax validation; it succeeds, even
\* when the name is syntactically invalid, provided the in-memory project_id
\* equals the stored one, no other model of that project holds the name and
\* directory_id is unset or names a model directory of that project.
C9_UnchangedNameNotValidated ==
    \A c \in Callers :
        Done(c, "Model.validate") =>
            \A s \in StoredModel(c) :
                (ent[c].name \in Names /\ ent[c].name = s.name) =>
                    /\ ~RanValidateFilename(c)
                    /\ (/\ ent[c].project_id = s.project_id
                        /\ ~HeldByOther(c, s.name, s.project_id)
                        /\ DirectoryOk(c))
                         => result[c].kind = "ok"

\* validate succeeded on an existing record that keeps its stored, invalid
\* name and references a model directory
C9_Witness ==
    \E c \in Callers :
        /\ Succeeded(c, "Model.validate")
        /\ \E s \in StoredModel(c) : ent[c].name = s.name
        /\ ent[c].name \in Names
        /\ ~validate_filename(ent[c].name)
        /\ ent[c].directory_id /= None

\* C10: Model.validate fails with InvalidInput when the name is syntactically
\* invalid and either the entity is new (no model_id) or the name differs from
\* the name stored for that model_id, even though no other model holds it;
\* when the parent reference is consistent the failure is the syntax error.
C10_InvalidNameRejected ==
    \A c \in Callers :
        Done(c, "Model.validate") =>
            LET e == ent[c]
                free == ~\E r \in models :
                            r.model_id /= e.model_id /\ r.name = e.name
            IN
            (/\ e.name \in Names
             /\ ~validate_filename(e.name)
             /\ \/ e.model_id = None
                \/ \E s \in StoredModel(c) : s.name /= e.name)
              => /\ result[c].kind = "InvalidInput"
                 /\ (/\ free
                     /\ \A s \in StoredModel(c) :
                            e.project_id \in {None, s.project_id})
                      => /\ result[c].tag = "syntax"
                         /\ RanValidateFilename(c)

\* validate of an existing model renamed to an invalid name that no other
\* model holds
C10_Witness ==
    \E c \in Callers :
        /\ Done(c, "Model.validate")
        /\ \E s \in StoredModel(c) :
              s.name = "a" /\ ent[c].project_id = s.project_id
        /\ ~validate_filename(ent[c].name)
        /\ ent[c].name \in Names
        /\ ~\E r \in models : r.name = ent[c].name
        /\ result[c].tag = "syntax"

\* the stored rows with the identity of the version entity of caller c
StoredVersion(c) == {r \in versions : r.version_id = ent[c].version_id}

\* caller c validated a new ModelVersion, or one whose record exists
VersionNewOrExisting(c) ==
    ent[c].version_id = None \/ StoredVersion(c) /= {}

\* the model the version entity of c belongs to: its in-memory model_id, or
\* the parent of its stored record when the in-memory reference is unset
OwnModel(c) ==
    IF ent[c].model_id /= None THEN {ent[c].model_id}
    ELSE {s.model_id : s \in StoredVersion(c)}

\* the versions other than the entity of c that carry its label
SameLabel(c) ==
    {r \in versions : /\ r.version_id /= ent[c].version_id
                      /\ r.version = ent[c].version}

\* C11: ModelVersion.validate fails with InvalidInput whenever the entity's
\* non-empty version label equals the label of a different version sharing
\* the same model_id, and does not reject a label that is only used by
\* versions of other models.
C11_LabelUniquePerModel ==
    \A c \in Callers :
        (/\ Done(c, "ModelVersion.validate")
         /\ VersionNewOrExisting(c)
         /\ ent[c].version \in Names) =>
            /\ (\E r \in SameLabel(c) : r.model_id = ent[c].model_id)
                 => result[c].kind = "InvalidInput"
            /\ (/\ OwnModel(c) /= {}
                /\ \A r \in SameLabel(c) : r.model_id \notin OwnModel(c))
                 => result[c].tag /= "exists"

\* C12: validate on an entity with an identity set fails with NotFound when
\* no record with that id exists, and fails with InvalidInput when the
\* in-memory parent reference (project_id for Model, model_id for
\* ModelVersion) is set and differs from the parent of the stored record.
C12_ValidateIdentity ==
    \A c \in Callers :
        /\ (Done(c, "Model.validate") /\ ent[c].model_id /= None) =>
              /\ StoredModel(c) = {} =>
                    /\ result[c].kind = "NotFound"
                    /\ calls[c] = <<model_query_request(ent[c].model_id)>>
              /\ \A s \in StoredModel(c) :
                    (/\ ent[c].project_id /= None
                     /\ ent[c].project_id /= s.project_id)
                      => /\ result[c] = Err("InvalidInput", "parent")
                         /\ Len(calls[c]) = 1
        /\ (Done(c, "ModelVersion.validate") /\ ent[c].version_id /= None) =>
              /\ StoredVersion(c) = {} =>
                    /\ result[c].kind = "NotFound"
                    /\ calls[c] =
                           <<version_id_query_request(ent[c].version_id)>>
              /\ \A s \in StoredVersion(c) :
                    (/\ ent[c].model_id /= None
                     /\ ent[c].model_id /= s.model_id)
                      => /\ result[c] = Err("InvalidInput", "parent")
                         /\ Len(calls[c]) = 1

\* validate of a stored model presented with the project of another model,
\* carrying a name and a directory that would otherwise pass
C12_Witness ==
    \E c \in Callers :
        /\ Done(c, "Model.validate")
        /\ \E s \in StoredModel(c) :
              /\ ent[c].project_id \in Projects \ {s.project_id}
              /\ ent[c].name = s.name
              /\ s.name = "a"
        /\ result[c] = Err("InvalidInput", "parent")

\* C13: validate on a Model or ModelVersion whose identity field is still an
\* unresolved alias token fails with InvalidInput.
C13_ValidateAliasIdentity ==
    \A c \in Callers :
        /\ (Done(c, "Model.validate") /\ ent[c].model_id \in AliasTokens)
              => result[c].kind = "InvalidInput"
        /\ (Done(c, "ModelVersion.validate")
                /\ ent[c].version_id \in AliasTokens)
              => result[c].kind = "InvalidInput"

\* the project the model entity of c belongs to: its in-memory project_id, or
\* the project of its stored record when the in-memory reference is unset
OwnProject(c) ==
    IF ent[c].project_id /= None THEN {ent[c].project_id}
    ELSE {s.project_id : s \in StoredModel(c)}

\* the directories stored under the directory_id of the entity of c
DirectoriesOfEntity(c) ==
    {d \in directories : d.directory_id = ent[c].directory_id}

\* C14: Model.validate with directory_id set succeeds only if the store holds
\* a directory with that id scoped to the same project_id and tagged with the
\* model component type; a directory that exists only under a different type
\* makes validate fail with InvalidInput.
C14_DirectoryValidation ==
    \A c \in Callers :
        (Done(c, "Model.validate") /\ ent[c].directory_id /= None) =>
            /\ (result[c].kind = "ok" /\ OwnProject(c) /= {}) =>
                  \E d \in DirectoriesOfEntity(c) :
                      /\ d.project_id \in OwnProject(c)
                      /\ d.type = COMPONENT_TYPES_model
            /\ (/\ NewOrExisting(c)
                /\ DirectoriesOfEntity(c) /= {}
                /\ \A d \in DirectoriesOfEntity(c) :
                       d.type /= COMPONENT_TYPES_model)
                 => result[c].kind = "InvalidInput"

\* the parent references stored before the operation of c are still the ones
\* stored now
ParentsKept(c) ==
    /\ \A r \in pre[c].models, r2 \in models :
           r.model_id = r2.model_id => r2.project_id = r.project_id
    /\ \A r \in pre[c].versions, r2 \in versions :
           r.version_id = r2.version_id => r2.model_id = r.model_id

\* caller c pushed an entity whose record exists with another parent
PushedOtherParent(c) ==
    \/ /\ Done(c, "Model.push")
       /\ \E s \in pre[c].models :
              /\ s.model_id = pre[c].ent.model_id
              /\ pre[c].ent.project_id \notin {None, s.project_id}
    \/ /\ Done(c, "ModelVersion.push")
       /\ \E s \in pre[c].versions :
              /\ s.version_id = pre[c].ent.version_id
              /\ pre[c].ent.model_id \notin {None, s.model_id}

ValidatedPush(c) ==
    \/ /\ Done(c, "Model.push")
       /\ prev[c] = [op |-> "Model.validate", kind |-> "ok"]
       /\ pre[c].ent.project_id /= None
    \/ /\ Done(c, "ModelVersion.push")
       /\ prev[c] = [op |-> "ModelVersion.validate", kind |-> "ok"]
       /\ pre[c].ent.model_id /= None

DonePush(c) == Done(c, "Model.push") \/ Done(c, "ModelVersion.push")

\* the identity of the entity of c, now
IdentityNow(c) ==
    IF op[c] \in {"Model.push", "Model.delete", "Model.validate"}
    THEN ent[c].model_id
    ELSE ent[c].version_id

\* the ids stored in the table of the entity of c when the operation began
IdsBefore(c) ==
    IF op[c] \in {"Model.push", "Model.delete", "Model.validate"}
    THEN {r.model_id : r \in pre[c].models}
    ELSE {r.version_id : r \in pre[c].versions}

\* the ids stored in the table of the entity of c, now
IdsNow(c) ==
    IF op[c] \in {"Model.push", "Model.delete", "Model.validate"}
    THEN {r.model_id : r \in models}
    ELSE {r.version_id : r \in versions}

\* a push without store handle: no request, entity and store untouched
PushUnavailable(c) ==
    /\ result[c].kind = "Unavailable"
    /\ calls[c] = <<>>
    /\ Snapshot(ent[c]) = pre[c]

\* a successful push: one upsert, identity set to the id the store returned
PushSucceeded(c) ==
    /\ Len(calls[c]) = 1
    /\ calls[c][1].kind = "upsert"
    /\ IdentityNow(c) = result[c].value
    /\ IdentityNow(c) \in IdsNow(c)
    /\ IF IdentityBefore(c) = None
       THEN IdentityNow(c) \notin IdsBefore(c) \cup {None}
       ELSE IdentityNow(c) = IdentityBefore(c)

\* C16 as stated: push with no store handle available fails with the
\* database-unavailable error, issues no upsert and leaves the entity's
\* identity unchanged; a successful push issues exactly one upsert and sets
\* the entity's identity to the id returned by the store.
C16_Original ==
    \A c \in Callers :
        DonePush(c) =>
            /\ ~args[c].database_client => PushUnavailable(c)
            /\ result[c].kind = "ok" => PushSucceeded(c)

\* C16 amended: push of an entity whose identity is not an unresolved alias
\* token, with no store handle available, fails with the database-unavailable
\* error, issues no upsert and leaves the entity unchanged (an alias identity
\* fails with InvalidInput first); a successful push issues exactly one upsert
\* and sets the entity's identity to the id returned by the store, a newly
\* assigned one when the entity had none.
C16_PushHandleAndIdentity ==
    \A c \in Callers :
        DonePush(c) =>
            /\ (~args[c].database_client
                   /\ IdentityBefore(c) \notin AliasTokens)
                 => PushUnavailable(c)
            /\ (~args[c].database_client
                   /\ IdentityBefore(c) \in AliasTokens)
                 => result[c].kind = "InvalidInput" /\ calls[c] = <<>>
            /\ result[c].kind = "ok" => PushSucceeded(c)
            /\ result[c].kind \in {"ok", "Unavailable", "InvalidInput"}

\* a push of a new model, on a store that holds a model, got a fresh id
C16_Witness ==
    \E c \in Callers :
        /\ Succeeded(c, "Model.push")
        /\ pre[c].ent.model_id = None
        /\ pre[c].models /= {}
        /\ ent[c].model_id \in ModelIdSet

\* the fields the claim lists for the upsert of a Model / a ModelVersion
ModelUpsertFields ==
    {"model_id", "name", "project_id", "latest_version_id", "model_type",
     "sub_model_type", "description", "directory_id"}
VersionUpsertFields ==
    {"version_id", "version", "model_id", "hyperparameters", "metrics",
     "fold_metrics"}

\* request q carries exactly the listed fields, with the values entity e held
CarriesExactly(q, fields, e) ==
    /\ q.keys = fields
    /\ \A f \in DOMAIN q.kw :
           q.kw[f] = IF f \in fields THEN e[f] ELSE NoKw[f]

\* C17: the upsert issued by push carries exactly the identity and the
\* mutable fields (Model: model_id, name, project_id, latest_version_id,
\* model_type, sub_model_type, description, directory_id; ModelVersion:
\* version_id, version, model_id, hyperparameters, metrics, fold_metrics) and
\* never carries created_at or modified_at, whatever values those hold in
\* memory.
C17_UpsertFields ==
    \A c \in Callers :
        DonePush(c) =>
            \A i \in DOMAIN calls[c] :
                LET q == calls[c][i] IN
                q.kind = "upsert" =>
                    /\ "created_at" \notin q.keys
                    /\ "modified_at" \notin q.keys
                    /\ q.kw.created_at = None /\ q.kw.modified_at = None
                    /\ IF op[c] = "Model.push"
                       THEN /\ q.table = "model"
                            /\ CarriesExactly(q, ModelUpsertFields,
                                              pre[c].ent)
                       ELSE /\ q.table = "model_version"
                            /\ CarriesExactly(q, VersionUpsertFields,
                                              pre[c].ent)

\* a push of a model that holds every field, with timestamps set externally
C17_Witness ==
    \E c \in Callers :
        /\ Succeeded(c, "Model.push")
        /\ pre[c].ent.created_at = "t9"
        /\ pre[c].ent.modified_at = "t9"
        /\ pre[c].ent.description /= None
        /\ pre[c].ent.latest_version_id /= None
        /\ Len(calls[c]) = 1

\* caller c ran Model.validate or ModelVersion.validate
DoneValidate(c) ==
    Done(c, "Model.validate") \/ Done(c, "ModelVersion.validate")

DoneDelete(c) == Done(c, "Model.delete") \/ Done(c, "ModelVersion.delete")

\* C19: invoking delete on a Model or ModelVersion whose row does not exist
\* in the store (e.g. a second delete after a completed one) fails with
\* NotFound at the re-pull step and issues no delete call of any kind.
C19_DeleteMissingRow ==
    \A c \in Callers :
        (/\ op[c] \in {"Model.delete", "ModelVersion.delete"}
         /\ IdentityBefore(c) \notin AliasTokens
         /\ IdentityBefore(c) \notin IdsBefore(c)) =>
            /\ pc[c] \in {"md_pull", "vd_pull", "done", "held"}
            /\ pc[c] \in {"done", "held"} =>
                  /\ result[c].kind = "NotFound"
                  /\ Snapshot(ent[c]) = pre[c]
            /\ \A i \in DOMAIN calls[c] : calls[c][i].kind = "query"

\* a second Model.delete right after a completed one of a model that owned
\* versions
C19_Witness ==
    \E c \in Callers :
        /\ Done(c, "Model.delete")
        /\ prev[c] = [op |-> "Model.delete", kind |-> "ok"]
        /\ result[c].kind = "NotFound"
        /\ Len(calls[c]) = 1
        /\ pre[c].ent.model_id \in ModelIdSet
        /\ versions /= {}

\* nothing of the cascade set of model M is left in the store
CascadeRemoved(M) ==
    /\ ~\E r \in models : r.model_id = M
    /\ ~\E r \in versions : r.model_id = M
    /\ ~\E r \in annotations :
           r.component_type = "model" /\ r.component_id = M
    /\ ~\E r \in aliases : r.component_id = M
    /\ ~\E o \in blobs : o[2] = M

\* no alias points at a version that is no longer stored
NoDanglingVersionAlias ==
    \A r \in aliases :
        r.component_id \in VersionIdSet =>
            \E v \in versions : v.version_id = r.component_id

\* C20: Model.delete is retriable to completion: if an invocation is
\* interrupted between any two of its steps and the caller re-invokes
\* Model.delete for the same id until it succeeds or fails NotFound, then the
\* whole cascade set (version rows, version aliases, model row, blob
\* namespace, annotations, model aliases) has been removed.
C20_RetryCompletes ==
    \A c \in Callers :
        (/\ Done(c, "Model.delete")
         /\ prev[c].op = "Model.delete"
         /\ pre[c].ent.model_id \in ModelIdSet
         /\ result[c].kind \in {"ok", "NotFound"})
            => /\ CascadeRemoved(pre[c].ent.model_id)
               /\ NoDanglingVersionAlias

\* caller c runs a collection delete whose pull returned
InCollectionLoop(c) ==
    /\ op[c] \in {"Models.delete", "ModelVersions.delete"}
    /\ pc[c] \notin {"idle", "ms_pull"}
    /\ ~(op[c] = "ModelVersions.delete" /\ pc[c] = "vs_pull")
    /\ \E i \in DOMAIN calls[c] :
           calls[c][i].kind = "query" /\ calls[c][i].fetchone = "False"

\* the ids of the members the collection delete of c pulled, in pulled order
PulledIds(c) ==
    IF op[c] = "Models.delete"
    THEN [i \in DOMAIN loc[c].models_pulled |->
              loc[c].models_pulled[i].model_id]
    ELSE [i \in DOMAIN loc[c].versions_pulled |->
              loc[c].versions_pulled[i].version_id]

\* the member a request of the collection delete of c is issued for; None
\* for the pull of the collection
MemberId(c, q) ==
    LET id == IF op[c] = "Models.delete" THEN q.kw.model_id
              ELSE q.kw.version_id
    IN  IF id /= None THEN id ELSE q.kw.component_id

\* the positions, in pulled order, of the members a request was issued for
TouchedPositions(c) ==
    {n \in DOMAIN PulledIds(c) :
        \E i \in DOMAIN calls[c] : MemberId(c, calls[c][i]) = PulledIds(c)[n]}

\* the row delete of member id was issued by c
RowDeleteIssued(c, id) ==
    \E i \in DOMAIN calls[c] :
        /\ calls[c][i].kind = "delete"
        /\ calls[c][i].table =
               (IF op[c] = "Models.delete" THEN "model" ELSE "model_version")
        /\ MemberId(c, calls[c][i]) = id

\* the row of member id is stored
MemberStored(c, id) ==
    IF op[c] = "Models.delete"
    THEN \E r \in models : r.model_id = id
    ELSE \E r \in versions : r.version_id = id

\* C21: Models.delete and ModelVersions.delete delete members sequentially in
\* pulled order; when the delete of one member fails, no delete is issued
\* for any later member, members already deleted stay deleted, and the
\* failing member's error reaches the caller unchanged.
C21_CollectionDeleteAborts ==
    \A c \in Callers :
        InCollectionLoop(c) =>
            LET P == PulledIds(c)
                T == TouchedPositions(c)
                rq == calls[c]
            IN
            \* requests follow the pulled order, member after member
            /\ \A i, j \in DOMAIN rq :
                   \A m, n \in DOMAIN P :
                       (/\ i < j
                        /\ MemberId(c, rq[i]) = P[m]
                        /\ MemberId(c, rq[j]) = P[n]) => m <= n
            /\ \A n \in T : \A m \in 1..n : m \in T
            \* a member is started only after every earlier one was deleted
            /\ \A m, n \in T :
                   m < n => RowDeleteIssued(c, P[m]) /\ ~MemberStored(c, P[m])
            \* a member never started has no delete issued and is still stored
            /\ \A n \in DOMAIN P :
                   n \notin T =>
                       ~RowDeleteIssued(c, P[n]) /\ MemberStored(c, P[n])
            /\ \A n \in DOMAIN P :
                   RowDeleteIssued(c, P[n]) => ~MemberStored(c, P[n])
            \* the operation ends with the member's error, or deleted all
            /\ (pc[c] = "done" /\ result[c].kind /= "ok") =>
                   result[c] = Err("Failure", "interrupted")
            /\ (pc[c] = "done" /\ result[c].kind = "ok") =>
                   \A n \in DOMAIN P :
                       RowDeleteIssued(c, P[n]) /\ ~MemberStored(c, P[n])

\* Models.delete pulled two models, deleted the first, and ended with the
\* failure of the second one's delete, whose row is still stored
C21_Witness ==
    \E c \in Callers :
        /\ Done(c, "Models.delete")
        /\ InCollectionLoop(c)
        /\ result[c] = Err("Failure", "interrupted")
        /\ Len(PulledIds(c)) = 2
        /\ TouchedPositions(c) = {1, 2}
        /\ ~MemberStored(c, PulledIds(c)[1])
        /\ MemberStored(c, PulledIds(c)[2])

\* caller c pushed a new Model successfully, right after validate succeeded
\* on it
CreatedValidated(c) ==
    /\ Succeeded(c, "Model.push")
    /\ prev[c] = [op |-> "Model.validate", kind |-> "ok"]
    /\ pre[c].ent.model_id = None

\* callers c and d created two model rows with one name in one project
DuplicateCreated(c, d) ==
    \E r1, r2 \in models :
        /\ r1.model_id = ent[c].model_id
        /\ r2.model_id = ent[d].model_id
        /\ r1.model_id /= r2.model_id
        /\ r1.name = ent[c].name /\ r2.name = ent[c].name
        /\ r1.project_id = ent[c].project_id
        /\ r2.project_id = ent[c].project_id

\* C22: with two callers each running validate then push for a new Model
\* with the same name in the same project, both validates can succeed before
\* either push; the store enforces no constraint, so whenever both callers
\* pushed after a successful validate the store holds two model rows sharing
\* that name in that project.
C22_CheckThenActRace ==
    \A c, d \in Callers :
        (/\ c /= d
         /\ CreatedValidated(c) /\ CreatedValidated(d)
         /\ ent[c].name = ent[d].name
         /\ ent[c].project_id = ent[d].project_id)
            => DuplicateCreated(c, d)

\* both callers validated a new model named "a" of project p1 and pushed it:
\* the store holds two rows with that name in that project
C22_Witness ==
    \E c, d \in Callers :
        /\ c /= d
        /\ CreatedValidated(c) /\ CreatedValidated(d)
        /\ ent[c].name = "a" /\ ent[d].name = "a"
        /\ ent[c].project_id = "p1" /\ ent[d].project_id = "p1"
        /\ Cardinality({r \in models :
                            r.name = "a" /\ r.project_id = "p1"}) = 2

\* the entity built back from the message equals the original on fields, and
\* a timestamp that was set comes back as the same value
SameOn(fields, e0, e) ==
    /\ \A f \in fields : e[f] = e0[f]
    /\ e0.created_at /= None => e.created_at = e0.created_at
    /\ e0.modified_at /= None => e.modified_at = e0.modified_at

\* C23: round-trip: for every Model and ModelVersion built from a store row
\* with from_namedtuple, converting it with to_proto and back with from_proto
\* yields an entity equal to the original on every contract field (Model:
\* model_id, project_id, name, latest_version_id, model_type, sub_model_type,
\* description, directory_id; ModelVersion: version_id, model_id, version,
\* hyperparameters, metrics, fold_metrics), with timestamps round-tripping as
\* the same integer once set.
C23_RoundTrip ==
    \A c \in Callers :
        /\ Succeeded(c, "Model.round_trip") =>
              SameOn(ModelUpsertFields, pre[c].ent, ent[c])
        /\ Succeeded(c, "ModelVersion.round_trip") =>
              SameOn(VersionUpsertFields, pre[c].ent, ent[c])

\* the requests of rq that are queries on the given table
QueriesOn(rq, table) ==
    {i \in DOMAIN rq : rq[i].kind = "query" /\ rq[i].table = table}

\* C24: ModelVersion.pull(version_id, model_id=M) issues exactly one
\* fetch-one query filtered by both version_id and model_id, returns the
\* entity built from that row, and fails NotFound when no version with that
\* id exists under model M (including when the version exists under a
\* different model).
C24_VersionPullByParent ==
    \A c \in Callers :
        Done(c, "ModelVersion.pull") =>
            LET id == args[c].version_id
                M == args[c].model_id
                rq == calls[c]
                hit == {r \in versions : r.version_id = id /\ r.model_id = M}
            IN
            \* whatever the id, at most one fetch, carrying both filters
            /\ Cardinality(QueriesOn(rq, "model_version")) <= 1
            /\ \A i \in QueriesOn(rq, "model_version") :
                   /\ rq[i].fetchone = "True"
                   /\ rq[i].keys = {"version_id", "model_id"}
                   /\ rq[i].kw.model_id = M
                   /\ i = Len(rq)
            /\ (id \in VersionIdSet /\ M \in ModelIdSet) =>
                   /\ rq = <<version_query_request(id, M)>>
                   /\ IF hit = {}
                      THEN result[c].kind = "NotFound"
                      ELSE /\ result[c].kind = "ok"
                           /\ result[c].value \in hit

\* ModelVersion.pull of a stored version with the id of a model it does not
\* belong to
C24_Witness ==
    \E c \in Callers :
        /\ Done(c, "ModelVersion.pull")
        /\ args[c].model_id \in ModelIdSet
        /\ \E r \in versions :
               /\ r.version_id = args[c].version_id
               /\ r.model_id /= args[c].model_id
        /\ result[c].kind = "NotFound"
        /\ Len(calls[c]) = 1

\* C25: Model.pull(model_id, project_id=P) with a non-alias model_id returns
\* the record only if it belongs to project P: when a project scope is
\* supplied the fetch is filtered by that parent scope, so a model stored
\* under a different project yields NotFound.
C25_ModelPullScoped ==
    \A c \in Callers :
        (/\ Done(c, "Model.pull")
         /\ args[c].model_id \in ModelIdSet
         /\ args[c].project_id \in Projects) =>
            /\ result[c].kind = "ok" =>
                   result[c].value.project_id = args[c].project_id
            /\ (~\E r \in models : /\ r.model_id = args[c].model_id
                                   /\ r.project_id = args[c].project_id)
                 => result[c].kind = "NotFound"

\* C26: a directory_id that is an alias token is never compared against the
\* store or persisted: across any sequence of from_proto, validate and push
\* operations, every directory lookup and every upserted Model row carries a
\* directory_id that is a canonical (non-alias) id.
C26_DirectoryAliasResolved ==
    /\ \A c \in Callers :
           \A i \in DOMAIN calls[c] :
               LET q == calls[c][i] IN
               (\/ q.kind = "query" /\ q.table = "directory"
                \/ q.kind = "upsert" /\ q.table = "model")
                   => ~is_alias(q.kw.directory_id)
    /\ \A r \in models : ~is_alias(r.directory_id)

\* C27: the unchanged-name exemption covers only the syntax check:
\* Model.validate on an existing record whose name equals its stored name
\* still fails with InvalidInput ("already exists") when another model in the
\* same project holds that same name.
C27_UnchangedNameStillCollides ==
    \A c \in Callers :
        Done(c, "Model.validate") =>
            \A s \in StoredModel(c) :
                (/\ ent[c].name \in Names
                 /\ ent[c].name = s.name
                 /\ ent[c].project_id \in {None, s.project_id}
                 /\ HeldByOther(c, s.name, s.project_id))
                  => /\ result[c] = Err("InvalidInput", "exists")
                     /\ ~RanValidateFilename(c)

\* validate of a stored model that keeps its name and its project, while a
\* second model of the project holds the same name
C27_Witness ==
    \E c \in Callers :
        /\ Done(c, "Model.validate")
        /\ \E s \in StoredModel(c) :
               /\ ent[c].name = s.name
               /\ ent[c].project_id = s.project_id
               /\ HeldByOther(c, s.name, s.project_id)
        /\ ent[c].name = "a"
        /\ result[c] = Err("InvalidInput", "exists")
        /\ Len(calls[c]) = 2

\* a request is a store query
IsQuery(q) == q.kind = "query"

\* C28: for a model with n versions, Model.delete issues exactly n+2 store
\* queries in this order: one fetch-one of the model by model_id, one list
\* query of versions by model_id, then one fetch-one per version by
\* (version_id, model_id) in the order the list query returned them; each
\* version is re-fetched immediately before its own row delete.
C28_DeleteQueries ==
    \A c \in Callers :
        Succeeded(c, "Model.delete") =>
            LET M == pre[c].ent.model_id
                rq == calls[c]
                Q == SelectSeq(rq, IsQuery)
                P == loc[c].versions_pulled
                n == Cardinality(VersionsBefore(c, M))
            IN
            /\ Len(P) = n
            /\ Len(Q) = n + 2
            /\ Q[1] = model_query_request(M)
            /\ Q[2] = versions_query_request(M, {})
            /\ Q[2].fetchone = "False" /\ Q[2].kw.model_id = M
            /\ \A k \in 1..n :
                   /\ Q[k + 2] = version_query_request(P[k].version_id, M)
                   /\ \E i \in DOMAIN rq :
                          /\ rq[i] = Q[k + 2]
                          /\ rq[i + 1].kind = "delete"
                          /\ rq[i + 1].table = "model_version"
                          /\ rq[i + 1].kw.version_id = P[k].version_id

\* a successful Model.delete of a model with two versions: four queries
C28_Witness ==
    \E c \in Callers :
        /\ Succeeded(c, "Model.delete")
        /\ Len(loc[c].versions_pulled) = 2
        /\ Len(SelectSeq(calls[c], IsQuery)) = 4
        /\ loc[c].versions_pulled[1].version_id = "v2"

\* the identity, name, project and directory reference handed to
\* Model.validate or carried by the message handed to Model.from_proto
ValidatedFields(c) ==
    IF op[c] = "Model.validate"
    THEN [model_id |-> pre[c].ent.model_id, name |-> pre[c].ent.name,
          project_id |-> pre[c].ent.project_id,
          directory_id |-> pre[c].ent.directory_id]
    ELSE LET m == args[c].obj_proto
             field(x) == IF x /= "" THEN x ELSE None
         IN  [model_id |-> field(m.model_id), name |-> field(m.name),
              project_id |-> field(m.project_id),
              directory_id |-> field(m.directory_id)]

\* validate or from_proto has run on an existing model with a non-alias
\* model_id, a name and a directory_id
ValidatedExisting(c) ==
    /\ pc[c] = "done"
    /\ op[c] \in {"Model.validate", "Model.from_proto"}
    /\ LET f == ValidatedFields(c) IN
       /\ Truthy(f.model_id) /\ ~is_alias(f.model_id)
       /\ \E r \in models : r.model_id = f.model_id
       /\ Truthy(f.name)
       /\ Truthy(f.directory_id)

\* the three queries of validate, in order
ThreeQueries(f) ==
    << model_query_request(f.model_id),
       models_query_request(f.project_id, None, {"project_id"}),
       Request("query", "directory", "False",
               {"directory_id", "project_id", "type"},
               [NoKw EXCEPT !.directory_id = f.directory_id,
                            !.project_id = f.project_id,
                            !.type = COMPONENT_TYPES_model]) >>

\* the store queries of caller c are the three queries, or, after a failure,
\* the ones up to the step that failed
ThreeQueriesInOrder(c) ==
    LET Q == SelectSeq(calls[c], IsQuery)
        E == ThreeQueries(ValidatedFields(c))
    IN  /\ Len(Q) <= 3
        /\ Q = SubSeq(E, 1, Len(Q))
        /\ result[c].kind = "ok" => Len(Q) = 3
        /\ result[c] = Err("InvalidInput", "parent") => Len(Q) = 1
        /\ result[c] \in {Err("InvalidInput", "exists"),
                          Err("InvalidInput", "syntax")} => Len(Q) = 2

VersionDeleteRequests(self, mv) ==
    << version_query_request(self.version_id, self.model_id),
       delete_request("model_version", {"version_id", "model_id"},
                      [NoKw EXCEPT !.version_id = mv.version_id,
                                   !.model_id = mv.model_id]),
       alias_delete_request(mv.version_id) >>

\* C30: ModelVersion.delete issues one fetch-one query by (version_id,
\* in-memory model_id), then one row delete keyed by the version_id and
\* model_id of the fetched record, then one alias delete for that version_id,
\* in that order; the alias delete is never issued before the row delete.
C30_VersionDeleteOrder ==
    \A c \in Callers :
        op[c] = "ModelVersion.delete" =>
            LET rq == calls[c]
                E == VersionDeleteRequests(pre[c].ent, loc[c].model_version)
            IN
            /\ Len(rq) <= 3
            /\ rq = SubSeq(E, 1, Len(rq))
            /\ Len(rq) >= 2 =>
                   \E row \in pre[c].versions :
                       /\ row.version_id = pre[c].ent.version_id
                       /\ rq[2].kw.version_id = row.version_id
                       /\ rq[2].kw.model_id = row.model_id
            /\ Succeeded(c, "ModelVersion.delete") => Len(rq) = 3
            /\ \A i \in DOMAIN rq :
                   rq[i].table = "project_alias" =>
                       \E j \in 1..(i - 1) :
                           /\ rq[j].kind = "delete"
                           /\ rq[j].table = "model_version"

\* a completed ModelVersion.delete on an entity that carries no model_id: the
\* row delete is keyed by the model_id of the fetched record
C30_Witness ==
    \E c \in Callers :
        /\ Succeeded(c, "ModelVersion.delete")
        /\ pre[c].ent.model_id = None
        /\ Len(calls[c]) = 3
        /\ calls[c][2].kw.model_id \in ModelIdSet
        /\ calls[c][3] = alias_delete_request(pre[c].ent.version_id)

\* a request of the part of Model.delete that follows the versions: delete
\* of the model row, of the blob namespace, of the annotations, of the
\* aliases of model M
AfterVersionsRequest(q, M) ==
    \/ q.kind = "delete" /\ q.table \in {"model", "annotation"}
    \/ q.kind = "delete_directory"
    \/ q.kind = "delete" /\ q.table = "project_alias"
                         /\ q.kw.component_id = M

\* before position i of rq the versions were listed, and the row and the
\* aliases of every version of P were deleted
VersionsDoneBefore(rq, i, P) ==
    /\ \E j \in 1..(i - 1) :
           /\ rq[j].kind = "query" /\ rq[j].table = "model_version"
           /\ rq[j].fetchone = "False"
    /\ \A k \in DOMAIN P :
           /\ \E j \in 1..(i - 1) :
                  /\ rq[j].kind = "delete" /\ rq[j].table = "model_version"
                  /\ rq[j].kw.version_id = P[k].version_id
           /\ \E j \in 1..(i - 1) :
                  rq[j] = alias_delete_request(P[k].version_id)

\* C31: in Model.delete the model row is deleted only after every child
\* version's delete has completed: if the re-pull, the version listing or a
\* single version delete fails, no model-row, blob, annotation or model-alias
\* delete is issued and the model row still exists, so a later retry of
\* Model.delete re-pulls it and resumes with the remaining versions.
C31_ModelRowAfterVersions ==
    \A c \in Callers :
        (op[c] = "Model.delete" /\ pre[c].ent.model_id \in ModelIdSet) =>
            LET M == pre[c].ent.model_id
                rq == calls[c]
                P == loc[c].versions_pulled
            IN
            /\ \A i \in DOMAIN rq :
                   AfterVersionsRequest(rq[i], M) =>
                       /\ VersionsDoneBefore(rq, i, P)
                       /\ ~\E v \in versions : v \in VersionsBefore(c, M)
            /\ (/\ result[c].kind \notin {"ok", "none"}
                /\ CountDelete(rq, "model") = 0) =>
                   /\ \A i \in DOMAIN rq : ~AfterVersionsRequest(rq[i], M)
                   /\ \A r \in pre[c].models : r.model_id = M => r \in models
                   /\ annotations = pre[c].annotations
                   /\ blobs = pre[c].blobs
                   /\ \A a \in pre[c].aliases :
                          a.component_id = M => a \in aliases
            /\ (/\ prev[c].op = "Model.delete"
                /\ prev[c].kind /= "ok"
                /\ \E r \in pre[c].models : r.model_id = M
                /\ Len(rq) >= 1) =>
                   /\ rq[1] = model_query_request(M)
                   /\ loc[c].model.model_id = M
                   /\ Len(rq) >= 2 =>
                          {P[k].version_id : k \in DOMAIN P}
                              = {v.version_id : v \in VersionsBefore(c, M)}

\* a Model.delete that failed inside the delete of the second version, with
\* the model row still stored, after an earlier failed Model.delete
C31_Witness ==
    \E c \in Callers :
        /\ Done(c, "Model.delete")
        /\ prev[c] = [op |-> "Model.delete", kind |-> "Failure"]
        /\ result[c] = Err("Failure", "interrupted")
        /\ CountDelete(calls[c], "model_version") = 1
        /\ Len(loc[c].versions_pulled) = 2
        /\ \E r \in models : r.model_id = pre[c].ent.model_id
        /\ \E v \in versions : v.model_id = pre[c].ent.model_id

\* the first element of the sequence of <<condition, outcome>> pairs whose
\* condition holds decides; Ok(None) when none holds
RECURSIVE FirstFailing(_)
FirstFailing(checks) ==
    IF checks = <<>> THEN Ok(None)
    ELSE IF Head(checks)[1] THEN Head(checks)[2]
    ELSE FirstFailing(Tail(checks))

\* the checks of Model.validate on entity e against the store, in the order
\* of the claim
ModelChecks(e) ==
    LET own == {r \in models : r.model_id = e.model_id}
        scope == {r \in models :
                     e.project_id = None \/ r.project_id = e.project_id}
    IN
    << <<Truthy(e.model_id) /\ own = {}, Err("NotFound", "no_model")>>,
       <<Truthy(e.model_id) /\ Truthy(e.project_id)
             /\ \E r \in own : r.project_id /= e.project_id,
         Err("InvalidInput", "parent")>>,
       <<Truthy(e.model_id) /\ is_alias(e.model_id),
         Err("InvalidInput", "alias")>>,
       <<Truthy(e.name)
             /\ \E r \in scope : r.model_id /= e.model_id /\ r.name = e.name,
         Err("InvalidInput", "exists")>>,
       <<Truthy(e.name) /\ ~validate_filename(e.name)
             /\ ~\E r \in scope : r.model_id = e.model_id /\ r.name = e.name,
         Err("InvalidInput", "syntax")>>,
       <<Truthy(e.directory_id)
             /\ ~\E d \in directories :
                    /\ d.directory_id = e.directory_id
                    /\ e.project_id = None \/ d.project_id = e.project_id
                    /\ d.type = COMPONENT_TYPES_model,
         Err("InvalidInput", "directory")>> >>

\* the checks of ModelVersion.validate on entity e against the store
VersionChecks(e) ==
    LET own == {r \in versions : r.version_id = e.version_id}
        scope == {r \in versions :
                     e.model_id = None \/ r.model_id = e.model_id}
    IN
    << <<Truthy(e.version_id) /\ own = {}, Err("NotFound", "no_model")>>,
       <<Truthy(e.version_id) /\ Truthy(e.model_id)
             /\ \E r \in own : r.model_id /= e.model_id,
         Err("InvalidInput", "parent")>>,
       <<Truthy(e.version_id) /\ is_alias(e.version_id),
         Err("InvalidInput", "alias")>>,
       <<Truthy(e.version)
             /\ \E r \in scope :
                    r.version_id /= e.version_id /\ r.version = e.version,
         Err("InvalidInput", "exists")>>,
       <<Truthy(e.version) /\ ~validate_filename(e.version)
             /\ ~\E r \in scope :
                    r.version_id = e.version_id /\ r.version = e.version,
         Err("InvalidInput", "syntax")>> >>

\* a request of the name or directory check of validate
NameOrDirectoryQuery(q) ==
    /\ q.kind = "query"
    /\ \/ q.fetchone = "False"
       \/ q.table = "directory"

\* C32: validate reports the first failing check in a fixed order: identity
\* record missing (NotFound), then parent mismatch, then identity-is-alias,
\* then name collision, then name syntax, then (Model only) directory.  A name
\* that both collides with a sibling and is syntactically invalid yields the
\* collision error, and a parent mismatch is reported before any name or
\* directory query is issued.
C32_ValidateOrder ==
    \A c \in Callers :
        /\ Done(c, "Model.validate") =>
               result[c] = FirstFailing(ModelChecks(pre[c].ent))
        /\ Done(c, "ModelVersion.validate") =>
               result[c] = FirstFailing(VersionChecks(pre[c].ent))
        /\ (/\ pc[c] = "done"
            /\ op[c] \in {"Model.validate", "ModelVersion.validate"}
            /\ result[c] = Err("InvalidInput", "parent")) =>
               \A i \in DOMAIN calls[c] : ~NameOrDirectoryQuery(calls[c][i])

\* ModelVersion.validate of a stored version under a label that is illegal
\* and held by a sibling: the collision is reported, the syntax is not
\* looked at
C32_Witness ==
    \E c \in Callers :
        /\ Done(c, "ModelVersion.validate")
        /\ pre[c].ent.version = "b/"
        /\ \E r \in versions : r.version_id = pre[c].ent.version_id
        /\ \E r \in versions :
               /\ r.version_id /= pre[c].ent.version_id
               /\ r.version = "b/"
               /\ r.model_id = pre[c].ent.model_id
        /\ result[c] = Err("InvalidInput", "exists")
        /\ ~\E i \in DOMAIN calls[c] : calls[c][i].kind = "validate_filename"

\* C33: single-caller name uniqueness: starting from a store in which model
\* names are unique per project, in any sequential execution where every
\* Model.push is immediately preceded by a successful Model.validate of the
\* same field values with project_id set, no two model rows of the same
\* project ever share a non-empty name.
C33_NamesStayUnique ==
    \A r1, r2 \in models :
        (/\ r1.model_id /= r2.model_id
         /\ r1.project_id = r2.project_id
         /\ Truthy(r1.name))
            => r1.name /= r2.name

\* a validated push gave a second model of a project a name, next to a model
\* of the project that holds another name
C33_Witness ==
    \E c \in Callers :
        /\ Succeeded(c, "Model.push")
        /\ Truthy(pre[c].ent.name)
        /\ models /= pre[c].models
        /\ \E r1, r2 \in models :
               /\ r1.model_id = ent[c].model_id
               /\ r1.name = pre[c].ent.name
               /\ r2.model_id /= r1.model_id
               /\ r2.project_id = r1.project_id
               /\ Truthy(r2.name)

\* the row of the model caller c invoked its operation on, as stored when the
\* operation began
StoredBefore(c) ==
    {r \in pre[c].models : r.model_id = pre[c].ent.model_id}

\* C34: Model.delete takes the blob namespace path and the ids used for row,
\* annotation and alias deletion from the record re-pulled from the store,
\* never from the in-memory project_id: delete on an in-memory Model whose
\* project_id is absent or differs from the stored one deletes the namespace
\* <stored project_id>/<model_id>.
C34_DeleteUsesStoredRecord ==
    \A c \in Callers :
        op[c] = "Model.delete" =>
            \A s \in StoredBefore(c) :
                /\ \A i \in DOMAIN calls[c] :
                       LET q == calls[c][i] IN
                       /\ q.kind = "delete_directory" =>
                              /\ q.kw.project_id = s.project_id
                              /\ q.kw.model_id = s.model_id
                       /\ (q.kind = "delete" /\ q.table = "model") =>
                              q.kw.model_id = s.model_id
                       /\ (q.kind = "delete" /\ q.table = "annotation") =>
                              q.kw.component_id = s.model_id
                /\ Succeeded(c, "Model.delete") =>
                       /\ CountAliasDelete(calls[c], s.model_id) = 1
                       /\ blobs = {o \in pre[c].blobs :
                                      ~(/\ o[1] = s.project_id
                                        /\ o[2] = s.model_id)}

\* a completed Model.delete on an in-memory Model that names another project
\* than the stored row: the folder of the stored project is gone
C34_Witness ==
    \E c \in Callers :
        /\ Succeeded(c, "Model.delete")
        /\ \E s \in StoredBefore(c) :
               /\ pre[c].ent.project_id \in Projects \ {s.project_id}
               /\ \E o \in pre[c].blobs :
                      o[1] = s.project_id /\ o[2] = s.model_id
               /\ ~\E o \in blobs : o[2] = s.model_id

\* the in-memory version of caller c names another model than the stored
\* record of its version_id
ParentDiffers(c) ==
    /\ Truthy(pre[c].ent.model_id)
    /\ \E r \in pre[c].versions :
           /\ r.version_id = pre[c].ent.version_id
           /\ r.model_id /= pre[c].ent.model_id

\* C35: ModelVersion.delete on an in-memory version whose model_id is set but
\* differs from the model_id of the stored record fails NotFound at the
\* re-pull and issues no row delete and no alias delete; the stored version
\* is left untouched.
C35_DeleteParentMismatch ==
    \A c \in Callers :
        (op[c] = "ModelVersion.delete" /\ ParentDiffers(c)) =>
            /\ pc[c] \in {"vd_pull", "done"}
            /\ pc[c] = "done" =>
                   /\ result[c].kind = "NotFound"
                   /\ calls[c] = <<version_query_request(
                                       pre[c].ent.version_id,
                                       pre[c].ent.model_id)>>
            /\ \A i \in DOMAIN calls[c] : calls[c][i].kind = "query"
            /\ Snapshot(pre[c].ent) = pre[c]

\* ModelVersion.delete ended on a stored, aliased version of another model
C35_Witness ==
    \E c \in Callers :
        /\ Done(c, "ModelVersion.delete")
        /\ ParentDiffers(c)
        /\ result[c].kind = "NotFound"
        /\ \E r \in versions : r.version_id = pre[c].ent.version_id
        /\ \E a \in aliases : a.component_id = pre[c].ent.version_id

\* the ids of the models Models.delete of caller c pulled
PulledModelIds(c) ==
    {loc[c].models_pulled[i].model_id : i \in DOMAIN loc[c].models_pulled}

\* the versions that belonged to a model of the set ids when the operation of
\* c began
VersionIdsOf(c, ids) ==
    {v.version_id : v \in {w \in pre[c].versions : w.model_id \in ids}}

\* nothing of the cascade of model M, as it was when the operation of c
\* began, is left in the store
MemberRemoved(c, M) ==
    /\ CascadeRemoved(M)
    /\ \A a \in aliases : a.component_id \notin VersionIdsOf(c, {M})

\* C36: Models.delete(project_id, directory_id) finishes the whole cascade of
\* one model before starting the next, and leaves untouched every model row,
\* version row, annotation and alias belonging to models outside the pulled
\* set (other projects, or other directories when directory_id is given).
C36_CollectionDeleteFrame ==
    \A c \in Callers :
        op[c] = "Models.delete" =>
            LET ids == PulledModelIds(c)
                P == PulledIds(c)
                T == TouchedPositions(c)
            IN
            /\ \A m, n \in T : m < n => MemberRemoved(c, P[m])
            /\ \A r \in pre[c].models : r.model_id \notin ids => r \in models
            /\ \A v \in pre[c].versions :
                   v.model_id \notin ids => v \in versions
            /\ \A a \in pre[c].annotations :
                   a.component_id \notin ids => a \in annotations
            /\ \A a \in pre[c].aliases :
                   (/\ a.component_id \notin ids
                    /\ a.component_id \notin VersionIdsOf(c, ids))
                       => a \in aliases
            /\ models \subseteq pre[c].models
            /\ versions \subseteq pre[c].versions
            /\ annotations \subseteq pre[c].annotations
            /\ aliases \subseteq pre[c].aliases

\* Models.delete of the models of one directory completed; a model of the
\* same project outside that directory is still stored with its version,
\* its annotation and the alias of its version
C36_Witness ==
    \E c \in Callers :
        /\ Succeeded(c, "Models.delete")
        /\ args[c].directory_id = "d1"
        /\ Len(loc[c].models_pulled) = 1
        /\ \E r \in models, v \in versions, a \in aliases, n \in annotations :
               /\ r.project_id = args[c].project_id
               /\ v.model_id = r.model_id
               /\ a.component_id = v.version_id
               /\ n.component_id = r.model_id

\* C37: ModelVersion.delete writes only to the model-version table and the
\* alias table: it leaves the parent Model row (including its
\* latest_version_id), all sibling versions, all annotations and the blob
\* namespace unchanged, so a Model's latest_version_id may afterwards
\* reference a version that no longer exists.
C37_VersionDeleteFrame ==
    \A c \in Callers :
        op[c] = "ModelVersion.delete" =>
            LET id == pre[c].ent.version_id IN
            /\ models = pre[c].models
            /\ annotations = pre[c].annotations
            /\ blobs = pre[c].blobs
            /\ directories = pre[c].directories
            /\ versions \subseteq pre[c].versions
            /\ aliases \subseteq pre[c].aliases
            /\ \A v \in pre[c].versions : v.version_id /= id => v \in versions
            /\ \A a \in pre[c].aliases : a.component_id /= id => a \in aliases
            /\ \A i \in DOMAIN calls[c] :
                   \/ calls[c][i].kind = "query"
                   \/ /\ calls[c][i].kind = "delete"
                      /\ calls[c][i].table \in {"model_version",
                                                "project_alias"}

\* a completed ModelVersion.delete of the version its parent names as the
\* latest one: the parent still names it, a sibling and the blob objects of
\* the deleted version are still stored
C37_Witness ==
    \E c \in Callers :
        /\ Succeeded(c, "ModelVersion.delete")
        /\ LET id == pre[c].ent.version_id IN
           /\ ~\E v \in versions : v.version_id = id
           /\ \E m \in models, v \in pre[c].versions, w \in versions :
                  /\ v.version_id = id
                  /\ m.model_id = v.model_id
                  /\ m.latest_version_id = id
                  /\ w.model_id = m.model_id
                  /\ \E o \in blobs : o[2] = m.model_id /\ o[3] = id

\* caller d pushed a new version of the model caller c deleted, and the row
\* it wrote was not among the versions the delete of c listed
PushedAfterListing(c, d) ==
    /\ Succeeded(c, "Model.delete")
    /\ Succeeded(d, "ModelVersion.push")
    /\ pre[d].ent.version_id = None
    /\ pre[d].ent.model_id = pre[c].ent.model_id
    /\ ~\E k \in DOMAIN loc[c].versions_pulled :
           /\ loc[c].versions_pulled[k].version_id = ent[d].version_id
           /\ loc[c].versions_pulled[k].created_at = StoreClock

\* C38: with one caller running Model.delete for model M while a second
\* caller runs ModelVersion.push of a new version with model_id M, an
\* interleaving in which the push lands after Model.delete has listed M's
\* versions leads to a state where Model.delete has returned successfully
\* and a version row referencing M still exists.
C38_PushDuringDelete ==
    \A c, d \in Callers :
        PushedAfterListing(c, d) =>
            /\ ~\E m \in models : m.model_id = pre[c].ent.model_id
            /\ \E v \in versions :
                   /\ v.version_id = ent[d].version_id
                   /\ v.model_id = pre[c].ent.model_id

\* the push landed while the model row was still stored, after the listing:
\* the delete completed and the version of the deleted model is stored
C38_Witness ==
    \E c, d \in Callers :
        /\ PushedAfterListing(c, d)
        /\ \E m \in pre[d].models : m.model_id = pre[c].ent.model_id
        /\ pre[d].versions /= pre[c].versions
        /\ \E v \in versions : v.model_id = pre[c].ent.model_id
        /\ ~\E m \in models : m.model_id = pre[c].ent.model_id

\* caller c pushed, right after a successful validate, a new version whose
\* model_id names no stored model
OrphanPushed(c) ==
    /\ Done(c, "ModelVersion.push")
    /\ prev[c] = [op |-> "ModelVersion.validate", kind |-> "ok"]
    /\ pre[c].ent.version_id = None
    /\ Truthy(pre[c].ent.model_id)
    /\ ~\E m \in pre[c].models : m.model_id = pre[c].ent.model_id
    /\ args[c].database_client

\* C39: ModelVersion.validate and ModelVersion.push query and write only the
\* model-version table and never check that the parent Model exists:
\* validate followed by push of a new version whose model_id has no Model row
\* succeeds and persists that version.
C39_NoParentCheck ==
    \A c \in Callers :
        /\ op[c] \in {"ModelVersion.validate", "ModelVersion.push"} =>
               /\ \A i \in DOMAIN calls[c] :
                      \/ calls[c][i].kind = "validate_filename"
                      \/ /\ calls[c][i].kind \in {"query", "upsert"}
                         /\ calls[c][i].table = "model_version"
               /\ pc[c] = "done" =>
                      /\ models = pre[c].models
                      /\ annotations = pre[c].annotations
                      /\ aliases = pre[c].aliases
                      /\ directories = pre[c].directories
                      /\ blobs = pre[c].blobs
        /\ op[c] = "ModelVersion.validate" /\ pc[c] = "done" =>
               versions = pre[c].versions
        /\ OrphanPushed(c) =>
               /\ result[c].kind = "ok"
               /\ \E v \in versions :
                      /\ v.version_id = ent[c].version_id
                      /\ v.version_id = result[c].value
                      /\ v.model_id = pre[c].ent.model_id
                      /\ v.version = pre[c].ent.version
                      /\ v \notin pre[c].versions

\* a named new version of a model that has no row was validated and pushed:
\* the version is stored
C39_Witness ==
    \E c \in Callers :
        /\ OrphanPushed(c)
        /\ pre[c].ent.version = "a"
        /\ result[c].kind = "ok"
        /\ \E v \in versions :
               /\ v.version_id = ent[c].version_id
               /\ v.model_id = pre[c].ent.model_id
        /\ ~\E m \in models : m.model_id = pre[c].ent.model_id

====
